---- MODULE Spec2Model ----
(***************************************************************************)
(* Quote resolution engine of Portfolio-Tracker-Online:                    *)
(*   src/src/price_fetcher.py  PriceFetcher (resolver + 15 minute cache)   *)
(*   src/src/scrapers.py       MorningstarScraper, JustETFScraper (30      *)
(*                             minute caches), buscar_precio_alternativo,  *)
(*                             _parsear_precio, obtener_cambio_diario_*,   *)
(*                             JustETFScraper.obtener_historico            *)
(*   src/web_app.py            api_historical                              *)
(* Time is counted in minutes.  A call is one atomic action: the code is   *)
(* synchronous and the clock does not advance inside a call.               *)
(***************************************************************************)
EXTENDS Integers, Sequences, FiniteSets, TLC

VARIABLES
    now,                  \* datetime.now(), minutes since process start
    scrapers_disponibles, \* PriceFetcher._scrapers_disponibles
    pf_cache,             \* PriceFetcher._cache: key -> entry or None
    ms_cache,             \* MorningstarScraper._cache: isin -> entry or None
    je_cache,             \* JustETFScraper._cache: isin -> entry or None
    pf_writer,            \* history: which request wrote each pf_cache entry
    _cambio_diario_cache, \* scrapers._cambio_diario_cache: the dict key -> entry
    _cache_timestamp,     \* scrapers._cache_timestamp: one instant for all entries
    last,                 \* history: the last operation and what it did
    calls                 \* history: number of lookups made so far

vars == <<now, scrapers_disponibles, pf_cache, ms_cache, je_cache, pf_writer,
          _cambio_diario_cache, _cache_timestamp, last, calls>>

----------------------------------------------------------------------------
(* Bounds of the model *)

MaxCalls == 2

\* The instants (minutes) at which operations happen: they give cache entries
\* the ages 5, 10, 15, 20 and 30.
Instants == {0, 10, 15, 30}

----------------------------------------------------------------------------
(* Python values *)

\* Python's None.
None == [none |-> TRUE]

\* An exception that leaves a function instead of a return value.
Raised == [exception |-> TRUE]

\* A float held in an Optional[float].
F(v) == [v |-> v]

\* bool(x) of an Optional[float]: None and 0.0 are falsy.
Truthy(x) == x # None /\ x.v # 0

\* a or b
PyOr(a, b) == IF Truthy(a) THEN a ELSE b

Prices == {0, 1, 2}
OptPrices == {None} \cup {F(p) : p \in Prices}

\* Request strings.  "" stands for an absent ticker / ISIN (None and "" are
\* both falsy in `if isin`, `if ticker and ticker.strip()`).
Tickers == {"", "A", "isin"}
Isins == {"", "X"}
RealIsins == Isins \ {""}

\* The (ticker, isin) requests made of obtener_precio: ticker alone, ISIN
\* alone, both, and a ticker that spells the prefix of the ISIN-only key.
Requests == {<<"A", "">>, <<"", "X">>, <<"A", "X">>, <<"isin", "X">>}

\* ticker.strip() is empty
Blank(ticker) == ticker \in {"", " "}

----------------------------------------------------------------------------
(* Cache keys and entries *)

\* price_fetcher.py:51   cache_key = f"{ticker}_{isin}" if isin else ticker
CacheKey(ticker, isin) == IF isin # "" THEN ticker \o "_" \o isin ELSE ticker

\* price_fetcher.py:127  cache_key = f"isin_{isin}"
IsinCacheKey(isin) == "isin_" \o isin

Keys == {CacheKey(r[1], r[2]) : r \in Requests} \cup {IsinCacheKey(i) : i \in RealIsins}

PF_CACHE_MINUTES == 15
MS_CACHE_MINUTES == 30
JE_CACHE_MINUTES == 30

Entry(t, data) == [timestamp |-> t, data |-> data]

\* Mutant: the age test is inverted (entries are served once they have expired).
PF_CacheHit_Inverted(cache, key, t) ==
    /\ cache[key] # None
    /\ t - cache[key].timestamp >= PF_CACHE_MINUTES

\* Mutant: the age test is inclusive (<= instead of <).
PF_CacheHit_Inclusive(cache, key, t) ==
    /\ cache[key] # None
    /\ t - cache[key].timestamp <= PF_CACHE_MINUTES

\* price_fetcher.py:54-56 / 128-130: key present and entry younger than the TTL
PF_CacheHit(cache, key, t) ==
    /\ cache[key] # None
    /\ t - cache[key].timestamp < PF_CACHE_MINUTES

\* scrapers.py:470-472
MS_CacheHit(cache, isin, t) ==
    /\ cache[isin] # None
    /\ t - cache[isin].timestamp < MS_CACHE_MINUTES

\* scrapers.py:700-702
JE_CacheHit(cache, isin, t) ==
    /\ cache[isin] # None
    /\ t - cache[isin].timestamp < JE_CACHE_MINUTES

\* Age of an entry at time t, -1 when the key is absent.
Age(cache, k, t) == IF cache[k] = None THEN -1 ELSE t - cache[k].timestamp

----------------------------------------------------------------------------
(* Quotes *)

Quote(precio, nombre, fuente) == [precio |-> precio, nombre |-> nombre, fuente |-> fuente]

Tradable(q) == q # None /\ q.precio > 0

----------------------------------------------------------------------------
(* Primary market adapter: PriceFetcher._obtener_yahoo *)

\* One upstream answer of yfinance for a ticker: stock.info (the four price
\* fields and the names; "" is a missing name) and stock.history(period="1d").
YahooResponses ==
    [raises : BOOLEAN,
     regularMarketPrice : OptPrices, currentPrice : OptPrices,
     navPrice : OptPrices, previousClose : OptPrices,
     shortName : {"N"}, longName : {""},
     hist : {<<>>} \cup {<<p>> : p \in Prices}]

\* Mutant: _obtener_yahoo without its try statement.
_obtener_yahoo_NoTry(ticker, y) ==
    IF y.raises THEN Raised
    ELSE LET precio0 == PyOr(PyOr(PyOr(y.regularMarketPrice, y.currentPrice),
                                  y.navPrice), y.previousClose)
             precio == IF precio0 = None
                       THEN IF y.hist # <<>> THEN F(y.hist[Len(y.hist)]) ELSE None
                       ELSE precio0
             nombre == IF y.shortName # "" THEN y.shortName
                       ELSE IF y.longName # "" THEN y.longName ELSE ticker
         IN IF precio = None THEN None
            ELSE Quote(precio.v, nombre, "Yahoo Finance")

\* price_fetcher.py:77-113: the whole body is a try statement whose
\* `except Exception` returns None.
_obtener_yahoo(ticker, y) ==
    IF y.raises THEN None
    ELSE LET precio0 == PyOr(PyOr(PyOr(y.regularMarketPrice, y.currentPrice),
                                  y.navPrice), y.previousClose)
             precio == IF precio0 = None
                       THEN IF y.hist # <<>> THEN F(y.hist[Len(y.hist)]) ELSE None
                       ELSE precio0
             nombre == IF y.shortName # "" THEN y.shortName
                       ELSE IF y.longName # "" THEN y.longName ELSE ticker
         IN IF precio = None THEN None
            ELSE Quote(precio.v, nombre, "Yahoo Finance")

\* What _obtener_yahoo can return for each ticker, over all upstream answers.
YahooResults == [t \in Tickers |-> {_obtener_yahoo(t, y) : y \in YahooResponses}]

----------------------------------------------------------------------------
(* Fund-data adapter: MorningstarScraper *)

\* One upstream answer of Morningstar for an ISIN.
\*   search_ok   the search request returned status 200
\*   json        "error": JSONDecodeError, "empty": no results, "match": fund_info found
\*   n           fund_info['n'], "" when the key is missing
\*   url_ok      fund_info['url'] is not empty
\*   fund_ok     the fund page returned status 200
\*   precio      what _extraer_precio_morningstar finds on the fund page
\*   alt_*       the snapshot page of _buscar_alternativo: status 200, the h1
\*               text ("" when there is no h1), the extracted price
MorningstarResponses ==
    [raises : BOOLEAN, search_ok : BOOLEAN, json : {"error", "empty", "match"},
     n : {"", "N"}, url_ok : BOOLEAN, fund_ok : BOOLEAN, precio : OptPrices,
     alt_raises : BOOLEAN, alt_ok : BOOLEAN, alt_h1 : {"", "N"}, alt_precio : OptPrices]

\* A fetch yields the value returned and whether it is written to the cache.
Fetched(data, store) == [data |-> data, store |-> store]

\* scrapers.py:576-607
MS_buscar_alternativo(isin, r) ==
    IF r.alt_raises \/ ~r.alt_ok THEN None
    ELSE LET nombre == IF r.alt_h1 # "" THEN r.alt_h1 ELSE isin
         IN IF nombre # isin
            THEN Quote(PyOr(r.alt_precio, F(0)).v, nombre,
                       IF Truthy(r.alt_precio) THEN "Morningstar"
                                               ELSE "Morningstar (sin precio)")
            ELSE None

\* scrapers.py:475-574, the part of buscar_por_isin after the cache check
MS_Fetch(isin, r) ==
    IF r.raises \/ ~r.search_ok THEN Fetched(None, FALSE)
    ELSE IF r.json # "match" THEN Fetched(MS_buscar_alternativo(isin, r), FALSE)
    ELSE IF ~r.url_ok \/ ~r.fund_ok THEN Fetched(None, FALSE)
    ELSE LET nombre == IF r.n # "" THEN r.n ELSE isin
         IN IF r.precio = None
            THEN IF nombre # isin
                 THEN Fetched(Quote(0, nombre, "Morningstar (sin precio)"), FALSE)
                 ELSE Fetched(None, FALSE)
            ELSE Fetched(Quote(r.precio.v, nombre, "Morningstar"), TRUE)

MorningstarFetches == [i \in RealIsins |-> {MS_Fetch(i, r) : r \in MorningstarResponses}]

\* scrapers.py:461-574  MorningstarScraper.buscar_por_isin; f is the outcome of
\* the upstream fetch, used only on a cache miss.
MS_buscar_por_isin(cache, isin, t, f) ==
    IF MS_CacheHit(cache, isin, t)
    THEN [ret |-> cache[isin].data, cache |-> cache, cached |-> TRUE]
    ELSE [ret |-> f.data,
          cache |-> IF f.store THEN [cache EXCEPT ![isin] = Entry(t, f.data)] ELSE cache,
          cached |-> FALSE]

----------------------------------------------------------------------------
(* ETF-data adapter: JustETFScraper *)

\* One upstream answer of justETF for an ISIN.
\*   raises      a request raises (timeout, connection error)
\*   precio_api  what _obtener_precio_api returns
\*   page_ok     the profile page returned status 200
\*   nombre      what the page gives as a name, "" when _extraer_nombre finds none
JustETFResponses ==
    [raises : BOOLEAN, precio_api : OptPrices, page_ok : BOOLEAN, nombre : {"", "N"}]

\* scrapers.py:705-753, the part of buscar_por_isin after the cache check
JE_Fetch(isin, r) ==
    IF r.raises THEN Fetched(None, FALSE)
    ELSE LET nombre == IF r.page_ok /\ r.nombre # "" THEN r.nombre ELSE isin
         IN IF Truthy(r.precio_api) /\ r.precio_api.v > 0
            THEN Fetched(Quote(r.precio_api.v, nombre, "justETF"), TRUE)
            ELSE IF nombre # isin
                 THEN Fetched(Quote(0, nombre, "justETF (sin precio)"), FALSE)
                 ELSE Fetched(None, FALSE)

JustETFFetches == [i \in RealIsins |-> {JE_Fetch(i, r) : r \in JustETFResponses}]

\* scrapers.py:691-757  JustETFScraper.buscar_por_isin
JE_buscar_por_isin(cache, isin, t, f) ==
    IF JE_CacheHit(cache, isin, t)
    THEN [ret |-> cache[isin].data, cache |-> cache, cached |-> TRUE]
    ELSE [ret |-> f.data,
          cache |-> IF f.store THEN [cache EXCEPT ![isin] = Entry(t, f.data)] ELSE cache,
          cached |-> FALSE]

----------------------------------------------------------------------------
(* ISIN fallback chain: buscar_precio_alternativo *)

\* One query of an adapter, as the call made it.
Query(adapter, ret, cached, age) ==
    [adapter |-> adapter, result |-> ret, cached |-> cached, age |-> age]

\* scrapers.py:1277 / 1286  resultado and (precio > 0 or nombre != isin)
Accepted(resultado, isin) ==
    /\ resultado # None
    /\ (resultado.precio > 0 \/ resultado.nombre # isin)

\* Mutant: no early return after justETF; Morningstar is queried as well and
\* its accepted answer replaces the one of justETF.
buscar_precio_alternativo_NoShortCircuit(isin, jc, mc, t, fj, fm) ==
    LET j == JE_buscar_por_isin(jc, isin, t, fj)
        qj == Query("justetf", j.ret, j.cached, Age(jc, isin, t))
        m == MS_buscar_por_isin(mc, isin, t, fm)
        qm == Query("morningstar", m.ret, m.cached, Age(mc, isin, t))
    IN [ret |-> IF Accepted(m.ret, isin) THEN m.ret
                ELSE IF Accepted(j.ret, isin) THEN j.ret ELSE None,
        je |-> j.cache, ms |-> m.cache, log |-> <<qj, qm>>]

\* scrapers.py:1264-1291
buscar_precio_alternativo(isin, jc, mc, t, fj, fm) ==
    LET j == JE_buscar_por_isin(jc, isin, t, fj)
        qj == Query("justetf", j.ret, j.cached, Age(jc, isin, t))
    IN IF Accepted(j.ret, isin)
       THEN [ret |-> j.ret, je |-> j.cache, ms |-> mc, log |-> <<qj>>]
       ELSE LET m == MS_buscar_por_isin(mc, isin, t, fm)
                qm == Query("morningstar", m.ret, m.cached, Age(mc, isin, t))
            IN [ret |-> IF Accepted(m.ret, isin) THEN m.ret ELSE None,
                je |-> j.cache, ms |-> m.cache, log |-> <<qj, qm>>]

----------------------------------------------------------------------------
(* Resolver: PriceFetcher *)

\* Mutant: an entry already present is updated in place, its data only (the
\* timestamp of the earlier write stays).
PF_Store_InPlace(cache, cache_key, resultado, t) ==
    IF resultado = None THEN cache
    ELSE IF cache[cache_key] = None
    THEN [cache EXCEPT ![cache_key] = Entry(t, resultado)]
    ELSE [cache EXCEPT ![cache_key].data = resultado]

\* Mutant: a refetch without a result evicts the entry of the key.
PF_Store_EvictOnFailure(cache, cache_key, resultado, t) ==
    IF resultado # None
    THEN [cache EXCEPT ![cache_key] = Entry(t, resultado)]
    ELSE [cache EXCEPT ![cache_key] = None]

\* Mutant: the result is stored without the `if resultado` test.
PF_Store_Unconditional(cache, cache_key, resultado, t) ==
    [cache EXCEPT ![cache_key] = Entry(t, resultado)]

\* price_fetcher.py:69-73 / 139-143  if resultado: self._cache[cache_key] = {...}
\* (a dict is truthy unless empty, so every result other than None is stored)
PF_Store(cache, cache_key, resultado, t) ==
    IF resultado # None
    THEN [cache EXCEPT ![cache_key] = Entry(t, resultado)]
    ELSE cache

\* Mutant: a result found by ISIN is stored under the bare-ISIN key as well.
obtener_precio_AlsoIsinKey(ticker, isin, pc, jc, mc, t, sd, fy, fj, fm) ==
    LET cache_key == CacheKey(ticker, isin)
    IN IF PF_CacheHit(pc, cache_key, t)
       THEN [ret |-> pc[cache_key].data, hit |-> TRUE, log |-> <<>>,
             pf |-> pc, je |-> jc, ms |-> mc]
       ELSE LET yahoo == ~Blank(ticker)
                r1 == IF yahoo THEN fy ELSE None
                log1 == IF yahoo THEN <<Query("yahoo", fy, FALSE, -1)>> ELSE <<>>
                byIsin == r1 = None /\ isin # "" /\ sd
                alt == IF byIsin
                       THEN buscar_precio_alternativo(isin, jc, mc, t, fj, fm)
                       ELSE [ret |-> r1, je |-> jc, ms |-> mc, log |-> <<>>]
                pf1 == PF_Store(pc, cache_key, alt.ret, t)
            IN [ret |-> alt.ret, hit |-> FALSE, log |-> log1 \o alt.log,
                pf |-> IF byIsin THEN PF_Store(pf1, IsinCacheKey(isin), alt.ret, t)
                       ELSE pf1,
                je |-> alt.je, ms |-> alt.ms]

\* price_fetcher.py:34-75  PriceFetcher.obtener_precio.
\* pc, jc, mc: the three caches; sd: _scrapers_disponibles; fy, fj, fm: what
\* the three upstream sources answer if they are asked in this call.
obtener_precio(ticker, isin, pc, jc, mc, t, sd, fy, fj, fm) ==
    LET cache_key == CacheKey(ticker, isin)
    IN IF PF_CacheHit(pc, cache_key, t)
       THEN [ret |-> pc[cache_key].data, hit |-> TRUE, log |-> <<>>,
             pf |-> pc, je |-> jc, ms |-> mc]
       ELSE LET yahoo == ~Blank(ticker)
                r1 == IF yahoo THEN fy ELSE None
                log1 == IF yahoo THEN <<Query("yahoo", fy, FALSE, -1)>> ELSE <<>>
                alt == IF r1 = None /\ isin # "" /\ sd
                       THEN buscar_precio_alternativo(isin, jc, mc, t, fj, fm)
                       ELSE [ret |-> r1, je |-> jc, ms |-> mc, log |-> <<>>]
            IN [ret |-> alt.ret, hit |-> FALSE, log |-> log1 \o alt.log,
                pf |-> PF_Store(pc, cache_key, alt.ret, t),
                je |-> alt.je, ms |-> alt.ms]

\* price_fetcher.py:115-145  PriceFetcher.obtener_precio_por_isin
obtener_precio_por_isin(isin, pc, jc, mc, t, sd, fj, fm) ==
    LET cache_key == IsinCacheKey(isin)
    IN IF PF_CacheHit(pc, cache_key, t)
       THEN [ret |-> pc[cache_key].data, hit |-> TRUE, log |-> <<>>,
             pf |-> pc, je |-> jc, ms |-> mc]
       ELSE IF ~sd
       THEN [ret |-> None, hit |-> FALSE, log |-> <<>>, pf |-> pc, je |-> jc, ms |-> mc]
       ELSE LET alt == buscar_precio_alternativo(isin, jc, mc, t, fj, fm)
            IN [ret |-> alt.ret, hit |-> FALSE, log |-> alt.log,
                pf |-> PF_Store(pc, cache_key, alt.ret, t),
                je |-> alt.je, ms |-> alt.ms]

\* price_fetcher.py:269-272  PriceFetcher.limpiar_cache: self._cache.clear()
limpiar_cache_pf(cache) == [k \in DOMAIN cache |-> None]

----------------------------------------------------------------------------
(* History of the last operation *)

NoWriter == <<>>
Writer(op, ticker, isin) == <<op, ticker, isin>>

NoOp(op) ==
    [op |-> op, ticker |-> "", isin |-> "", key |-> "", at |-> 0,
     hit |-> FALSE, age |-> -1, readFrom |-> NoWriter,
     result |-> None, log |-> <<>>, stored |-> FALSE, altTradable |-> FALSE,
     prevOp |-> "init", prevSame |-> FALSE, prevStored |-> FALSE,
     sincePrev |-> 0, prevResult |-> None, prevLog |-> <<>>]

IsCall(rec) == rec.op \in {"obtener_precio", "obtener_precio_por_isin"}

Queried(c, adapter) == \E i \in 1..Len(c.log) : c.log[i].adapter = adapter
Informational(q) == q # None /\ ~(q.precio > 0)

\* The upstream answers to draw for an ISIN adapter in a call whose outcome is
\* c so far: every answer when the adapter is queried and misses its cache;
\* one answer with and one without a price > 0 when the adapter is left out of
\* a call that ends with a quote without a price (AltTradable reads only
\* that); a single unused answer otherwise.
NoFetch == Fetched(None, FALSE)
Draws(c, adapter, cacheHit, fetches) ==
    IF c.hit \/ cacheHit THEN {NoFetch}
    ELSE IF Queried(c, adapter) THEN fetches
    ELSE IF Informational(c.ret)
    THEN {NoFetch, CHOOSE f \in fetches : Tradable(f.data)}
    ELSE {NoFetch}

\* Does an ISIN adapter that the call did not query answer with a price > 0
\* when it is asked at this moment (from its cache or from upstream)?
AltTradable(c, isin, fj, fm) ==
    /\ isin # ""
    /\ ~c.hit
    /\ Informational(c.ret)
    /\ \/ /\ ~Queried(c, "justetf")
          /\ Tradable(JE_buscar_por_isin(je_cache, isin, now, fj).ret)
       \/ /\ ~Queried(c, "morningstar")
          /\ Tradable(MS_buscar_por_isin(ms_cache, isin, now, fm).ret)

CallRecord(op, ticker, isin, key, c, fj, fm) ==
    LET same == last.op = op /\ last.ticker = ticker /\ last.isin = isin
    IN [op |-> op, ticker |-> ticker, isin |-> isin, key |-> key, at |-> now,
        hit |-> c.hit,
        age |-> Age(pf_cache, key, now),
        readFrom |-> IF c.hit THEN pf_writer[key] ELSE NoWriter,
        result |-> c.ret, log |-> c.log,
        stored |-> c.pf # pf_cache,
        altTradable |-> AltTradable(c, isin, fj, fm),
        prevOp |-> last.op,
        prevSame |-> same,
        prevStored |-> same /\ last.stored,
        sincePrev |-> IF same THEN now - last.at ELSE 0,
        prevResult |-> IF same THEN last.result ELSE None,
        prevLog |-> IF same THEN last.log ELSE <<>>]

----------------------------------------------------------------------------
(* State machine *)

Init ==
    /\ now = 0
    /\ scrapers_disponibles \in BOOLEAN
    /\ pf_cache = [k \in Keys |-> None]
    /\ ms_cache = [i \in RealIsins |-> None]
    /\ je_cache = [i \in RealIsins |-> None]
    /\ pf_writer = [k \in Keys |-> NoWriter]
    /\ _cambio_diario_cache = <<>>
    /\ _cache_timestamp = None
    /\ last = NoOp("init")
    /\ calls = 0

\* Time passes between operations.
Tick ==
    /\ calls < MaxCalls
    /\ \E t \in Instants :
         /\ t > now
         /\ now' = t
    /\ UNCHANGED <<scrapers_disponibles, pf_cache, ms_cache, je_cache, pf_writer, last, calls>>
    /\ UNCHANGED <<_cambio_diario_cache, _cache_timestamp>>

Commit(op, ticker, isin, key, c, fj, fm) ==
    /\ pf_cache' = c.pf
    /\ je_cache' = c.je
    /\ ms_cache' = c.ms
    /\ pf_writer' = IF c.pf # pf_cache
                    THEN [pf_writer EXCEPT ![key] = Writer(op, ticker, isin)]
                    ELSE pf_writer
    /\ last' = CallRecord(op, ticker, isin, key, c, fj, fm)
    /\ calls' = calls + 1
    /\ UNCHANGED <<now, scrapers_disponibles, _cambio_diario_cache, _cache_timestamp>>

ObtenerPrecio ==
    /\ calls < MaxCalls
    /\ \E ticker \in Tickers, isin \in Isins :
         /\ <<ticker, isin>> \in Requests
         /\ LET key == CacheKey(ticker, isin)
                hit == PF_CacheHit(pf_cache, key, now)
                call(fy, fj, fm) ==
                    obtener_precio(ticker, isin, pf_cache, je_cache, ms_cache, now,
                                   scrapers_disponibles, fy, fj, fm)
            IN \E fy \in IF hit \/ Blank(ticker) THEN {None} ELSE YahooResults[ticker] :
               \E fj \in IF isin = "" THEN {NoFetch}
                         ELSE Draws(call(fy, NoFetch, NoFetch), "justetf",
                                    JE_CacheHit(je_cache, isin, now), JustETFFetches[isin]) :
               \E fm \in IF isin = "" THEN {NoFetch}
                         ELSE Draws(call(fy, fj, NoFetch), "morningstar",
                                    MS_CacheHit(ms_cache, isin, now), MorningstarFetches[isin]) :
                  Commit("obtener_precio", ticker, isin, key, call(fy, fj, fm), fj, fm)

ObtenerPrecioPorIsin ==
    /\ calls < MaxCalls
    /\ \E isin \in RealIsins :
         LET key == IsinCacheKey(isin)
             call(fj, fm) ==
                 obtener_precio_por_isin(isin, pf_cache, je_cache, ms_cache, now,
                                         scrapers_disponibles, fj, fm)
         IN \E fj \in Draws(call(NoFetch, NoFetch), "justetf",
                            JE_CacheHit(je_cache, isin, now), JustETFFetches[isin]) :
            \E fm \in Draws(call(fj, NoFetch), "morningstar",
                            MS_CacheHit(ms_cache, isin, now), MorningstarFetches[isin]) :
               Commit("obtener_precio_por_isin", "", isin, key, call(fj, fm), fj, fm)

LimpiarCache ==
    /\ calls < MaxCalls
    /\ last.op # "limpiar_cache"
    /\ pf_cache' = limpiar_cache_pf(pf_cache)
    /\ pf_writer' = [k \in Keys |-> NoWriter]
    /\ last' = NoOp("limpiar_cache")
    /\ UNCHANGED <<now, scrapers_disponibles, ms_cache, je_cache, calls>>
    /\ UNCHANGED <<_cambio_diario_cache, _cache_timestamp>>

Next == Tick \/ ObtenerPrecio \/ ObtenerPrecioPorIsin \/ LimpiarCache

Spec == Init /\ [][Next]_vars

----------------------------------------------------------------------------
(* Claims *)

IsinAdapters == {"justetf", "morningstar"}

\* The request of the last call is the one of the operation before it, which
\* stored its result less than the resolver TTL ago.
RepeatedWithinTTL ==
    /\ IsCall(last)
    /\ last.prevStored
    /\ last.sincePrev < PF_CACHE_MINUTES

\* C1: a call that repeats the previous call's request less than 15 minutes
\* after that call stored its result returns the same quote and queries no
\* adapter (Yahoo, justETF, Morningstar).
C1_RepeatServedFromCache ==
    RepeatedWithinTTL => (last.result = last.prevResult /\ last.log = <<>>)

C1_Witness ==
    /\ RepeatedWithinTTL
    /\ last.sincePrev > 0
    /\ last.op = "obtener_precio"
    /\ Tradable(last.result)

\* C2: a call that ends with None writes nothing to the resolver cache, and the
\* next call for the same request is not answered from the cache: it queries
\* the adapters again.
C2_NullNotCached ==
    IsCall(last) =>
        /\ last.result = None => ~last.stored
        /\ (last.prevSame /\ last.prevResult = None) =>
               /\ ~last.hit
               /\ last.prevLog # <<>> =>
                      (last.log # <<>> /\ last.log[1].adapter = last.prevLog[1].adapter)

C2_Witness ==
    /\ IsCall(last)
    /\ last.prevSame /\ last.prevResult = None /\ last.prevLog # <<>>
    /\ last.sincePrev < PF_CACHE_MINUTES
    /\ last.log # <<>>
    /\ Tradable(last.result)

\* C3: the resolver serves a cached entry only while it is younger than 15
\* minutes, and the Morningstar and justETF adapters only while theirs is
\* younger than 30 minutes; an entry at or past its TTL is not served, the
\* call goes upstream.
C3_ServedOnlyWhileFresh ==
    IsCall(last) =>
        /\ last.hit => (0 <= last.age /\ last.age < PF_CACHE_MINUTES)
        /\ \A i \in 1..Len(last.log) :
             LET q == last.log[i]
             IN /\ (q.adapter = "morningstar" /\ q.cached) =>
                       (0 <= q.age /\ q.age < MS_CACHE_MINUTES)
                /\ (q.adapter = "justetf" /\ q.cached) =>
                       (0 <= q.age /\ q.age < JE_CACHE_MINUTES)

C3_Witness ==
    /\ IsCall(last)
    /\ ~last.hit /\ last.age = PF_CACHE_MINUTES
    /\ \E i \in 1..Len(last.log) :
         /\ last.log[i].adapter = "justetf"
         /\ last.log[i].cached
         /\ last.log[i].age = PF_CACHE_MINUTES

\* C4: after limpiar_cache the next lookup is answered from no cache layer of
\* the core: neither the resolver nor an adapter serves an entry cached before
\* the invalidation.
C4_NothingCachedAfterLimpiar ==
    (IsCall(last) /\ last.prevOp = "limpiar_cache") =>
        /\ ~last.hit
        /\ \A i \in 1..Len(last.log) : ~last.log[i].cached

\* C5: in obtener_precio(ticker, isin), when Yahoo yields no tradable price (no
\* result, or a price that is not > 0) and an ISIN is present, the ISIN
\* adapters are tried before the resolver returns.
C5_IsinAdaptersTried ==
    ( /\ last.op = "obtener_precio"
      /\ ~last.hit
      /\ last.isin # ""
      /\ scrapers_disponibles
      /\ ~\E i \in 1..Len(last.log) :
            last.log[i].adapter = "yahoo" /\ Tradable(last.log[i].result) )
    => \E i \in 1..Len(last.log) : last.log[i].adapter \in IsinAdapters

\* C6: on the ISIN fallback path the ETF-data adapter (justETF) is never
\* queried before the fund-data adapter (Morningstar).
C6_MorningstarBeforeJustETF ==
    IsCall(last) =>
        \A i \in 1..Len(last.log) :
            last.log[i].adapter = "justetf" =>
                \E j \in 1..(i - 1) : last.log[j].adapter = "morningstar"

\* C7: the first adapter queried in a call that returns a quote with price > 0
\* wins: its quote is the result of the call and no adapter is queried after
\* it in that call.
C7_FirstTradableWins ==
    IsCall(last) =>
        \A i \in 1..Len(last.log) :
            Tradable(last.log[i].result) =>
                (i = Len(last.log) /\ last.result = last.log[i].result)

C7_Witness ==
    /\ last.op = "obtener_precio"
    /\ Len(last.log) = 2
    /\ last.log[1].adapter = "yahoo" /\ last.log[1].result = None
    /\ last.log[2].adapter = "justetf" /\ ~last.log[2].cached
    /\ Tradable(last.log[2].result)
    /\ last.result = last.log[2].result

\* C8: the ISIN chain ends with a quote without a price (price not > 0, name
\* different from the ISIN) only when no ISIN adapter returns a tradable
\* price for the request.
C8_InformationalOnlyWithoutTradable ==
    ( /\ IsCall(last)
      /\ ~last.hit
      /\ last.log # <<>>
      /\ last.log[Len(last.log)].adapter \in IsinAdapters
      /\ Informational(last.result)
      /\ last.result.nombre # last.isin )
    => ~last.altTradable

\* The resolver cache key of a call.
KeyOf(rec) ==
    IF rec.op = "obtener_precio" THEN CacheKey(rec.ticker, rec.isin)
    ELSE IsinCacheKey(rec.isin)

\* C9: a call changes at most the resolver cache entry keyed by the request
\* the caller passed, to the quote the call returns stamped with the time of
\* the call; the entries under all other keys are unchanged.
C9_OnlyRequestKeyWritten ==
    [][ calls' = calls + 1 =>
          /\ \A k \in Keys : k # KeyOf(last') => pf_cache'[k] = pf_cache[k]
          /\ \/ pf_cache'[KeyOf(last')] = pf_cache[KeyOf(last')]
             \/ pf_cache'[KeyOf(last')] = Entry(now, last'.result) ]_vars

C9_Witness ==
    /\ last.op = "obtener_precio"
    /\ last.stored
    /\ Queried(last, "justetf")
    /\ Tradable(last.result)
    /\ pf_cache[KeyOf(last)] = Entry(now, last.result)
    /\ KeyOf(last) # IsinCacheKey(last.isin)
    /\ pf_cache[IsinCacheKey(last.isin)] # None
    /\ pf_cache[IsinCacheKey(last.isin)].timestamp < now

\* C10: requests that differ in ticker, in ISIN or in entry point never share
\* a cache key: a call answered from the cache reads an entry that a call
\* with the same entry point, ticker and ISIN wrote.
C10_ReadsOwnEntry ==
    (IsCall(last) /\ last.hit) =>
        last.readFrom = Writer(last.op, last.ticker, last.isin)

----------------------------------------------------------------------------
(* Strings: the str methods and re.sub calls of the parsers and handlers *)

Char(s, i) == SubSeq(s, i, i)

Whitespace == {" "}
Currency == {"€", "$", "£"}
Upper == {"A", "B", "C", "D", "E", "F", "G", "H", "I", "J", "K", "L", "M",
          "N", "O", "P", "Q", "R", "S", "T", "U", "V", "W", "X", "Y", "Z"}
Lower == {"a", "b", "c", "d", "e", "f", "g", "h", "i", "j", "k", "l", "m",
          "n", "o", "p", "q", "r", "s", "t", "u", "v", "w", "x", "y", "z"}
Letters == Upper \cup Lower
DigitChars == {"0", "1", "2", "3", "4", "5", "6", "7", "8", "9"}

\* str.strip()
RECURSIVE lstrip(_)
lstrip(s) ==
    IF s # "" /\ Char(s, 1) \in Whitespace THEN lstrip(SubSeq(s, 2, Len(s))) ELSE s

RECURSIVE rstrip(_)
rstrip(s) ==
    IF s # "" /\ Char(s, Len(s)) \in Whitespace
    THEN rstrip(SubSeq(s, 1, Len(s) - 1)) ELSE s

strip(s) == rstrip(lstrip(s))

\* re.sub(r'[cs]', '', s): s without the characters of the class cs
RECURSIVE re_sub(_, _)
re_sub(cs, s) ==
    IF s = "" THEN ""
    ELSE (IF Char(s, 1) \in cs THEN "" ELSE Char(s, 1)) \o re_sub(cs, SubSeq(s, 2, Len(s)))

\* c in s
Contains(s, c) == \E i \in 1..Len(s) : Char(s, i) = c

\* s.rfind(c): 0-based index of the last c, -1 when there is none
rfind(s, c) ==
    IF Contains(s, c)
    THEN (CHOOSE i \in 1..Len(s) :
              Char(s, i) = c /\ \A j \in (i + 1)..Len(s) : Char(s, j) # c) - 1
    ELSE -1

\* s.replace(old, new) for a one-character old
RECURSIVE replace(_, _, _)
replace(s, old, new) ==
    IF s = "" THEN ""
    ELSE (IF Char(s, 1) = old THEN new ELSE Char(s, 1))
         \o replace(SubSeq(s, 2, Len(s)), old, new)

----------------------------------------------------------------------------
(* Floats read from text.  A float is held as the decimal n / 10^k with   *)
(* trailing zeros of the fraction removed, so that equal values are equal *)
(* records: 36.00 is Dec(36, 0) and 1234.56 is Dec(123456, 2).           *)

RECURSIVE Dec(_, _)
Dec(n, k) == IF k > 0 /\ n % 10 = 0 THEN Dec(n \div 10, k - 1) ELSE [n |-> n, k |-> k]

ValueError == [raises |-> "ValueError"]

AllDigits(s) == \A i \in 1..Len(s) : Char(s, i) \in DigitChars

DigitVal(c) == CHOOSE d \in 0..9 : ToString(d) = c

\* int(s) of a string of digits
RECURSIVE int(_)
int(s) ==
    IF s = "" THEN 0
    ELSE 10 * int(SubSeq(s, 1, Len(s) - 1)) + DigitVal(Char(s, Len(s)))

\* float(s) for s without whitespace: an optional sign, digits with at most one
\* '.', at least one digit; anything else is a ValueError.  (Exponents, "inf",
\* "nan" and "_" do not occur in the texts of the model.)
float(s) ==
    LET signed == s # "" /\ Char(s, 1) \in {"+", "-"}
        body == IF signed THEN SubSeq(s, 2, Len(s)) ELSE s
        dot == rfind(body, ".")
        ent == IF dot < 0 THEN body ELSE SubSeq(body, 1, dot)
        frac == IF dot < 0 THEN "" ELSE SubSeq(body, dot + 2, Len(body))
        magnitude == int(ent \o frac)
    IN IF AllDigits(ent) /\ AllDigits(frac) /\ Len(ent) + Len(frac) > 0
       THEN Dec(IF signed /\ Char(s, 1) = "-" THEN 0 - magnitude ELSE magnitude, Len(frac))
       ELSE ValueError

----------------------------------------------------------------------------
(* Numeric/locale parsers: _parsear_precio of the two scrapers *)

\* scrapers.py:665-672 and 1245-1250: with both ',' and '.', the right-most is
\* the decimal point and the other is dropped; a lone ',' is the decimal point.
Separadores(limpio) ==
    IF Contains(limpio, ",") /\ Contains(limpio, ".")
    THEN IF rfind(limpio, ",") > rfind(limpio, ".")
         THEN replace(replace(limpio, ".", ""), ",", ".")
         ELSE replace(limpio, ",", "")
    ELSE IF Contains(limpio, ",") THEN replace(limpio, ",", ".")
    ELSE limpio

\* Mutant: the text is always read in the American convention (',' dropped).
MS_parsear_precio_American(texto) ==
    LET valor == float(replace(re_sub(Currency \cup Whitespace, strip(texto)), ",", ""))
    IN IF valor = ValueError THEN None ELSE valor

\* scrapers.py:656-677  MorningstarScraper._parsear_precio
MS_parsear_precio(texto) ==
    LET limpio == re_sub(Currency \cup Whitespace, strip(texto))
        valor == float(Separadores(limpio))
    IN IF valor = ValueError THEN None ELSE valor

\* scrapers.py:1233-1256  JustETFScraper._parsear_precio
JE_parsear_precio(texto) ==
    IF texto = "" THEN None
    ELSE LET limpio == re_sub(Letters, re_sub(Currency \cup Whitespace, strip(texto)))
             valor == float(Separadores(limpio))
         IN IF limpio = "" \/ valor = ValueError THEN None
            ELSE IF valor.n > 0 THEN valor ELSE None

----------------------------------------------------------------------------
(* Specification of the parsers: a text is drawn, a parser is applied *)

\* Longest integer part of the generated texts, in digits
MaxDigits == 2

RECURSIVE DigitStrings(_)
DigitStrings(n) ==
    IF n = 0 THEN {""}
    ELSE {d \o s : d \in {"0", "1", "3", "6"}, s \in DigitStrings(n - 1)}

Enteros == UNION {DigitStrings(n) : n \in 1..MaxDigits}

\* sign, integer part, thousands group, decimals, wrapped in currency marks
Generated ==
    {pre \o sg \o ent \o grp \o dec \o suf :
        pre \in {"", "€", "$ "}, sg \in {"", "-"}, ent \in Enteros,
        grp \in {"", ",234", ".234"}, dec \in {"", ",56", ".56", ",00"},
        suf \in {"", " €", " EUR", "%"}}

Examples == {"", " ", "abc", "N/A", "-", ".", ",", "1.234,56", "1,234.56", "36,00"}

Textos == Generated \cup Examples

Parsed(parser, texto, ret) ==
    [op |-> "_parsear_precio", parser |-> parser, texto |-> texto, ret |-> ret]

\* The state of the module where no lookup has been made.
Idle ==
    /\ now = 0
    /\ scrapers_disponibles = TRUE
    /\ pf_cache = [k \in Keys |-> None]
    /\ ms_cache = [i \in RealIsins |-> None]
    /\ je_cache = [i \in RealIsins |-> None]
    /\ pf_writer = [k \in Keys |-> NoWriter]
    /\ _cambio_diario_cache = <<>>
    /\ _cache_timestamp = None

InitParser ==
    /\ Idle
    /\ \E texto \in Textos : last = [op |-> "texto", texto |-> texto]
    /\ calls = 0

UnchangedButLast ==
    UNCHANGED <<now, scrapers_disponibles, pf_cache, ms_cache, je_cache, pf_writer,
                _cambio_diario_cache, _cache_timestamp>>

ParsearPrecioMorningstar ==
    /\ last.op = "texto"
    /\ last' = Parsed("Morningstar", last.texto, MS_parsear_precio(last.texto))
    /\ calls' = calls + 1
    /\ UnchangedButLast

ParsearPrecioJustETF ==
    /\ last.op = "texto"
    /\ last' = Parsed("justETF", last.texto, JE_parsear_precio(last.texto))
    /\ calls' = calls + 1
    /\ UnchangedButLast

NextParser == ParsearPrecioMorningstar \/ ParsearPrecioJustETF

SpecParser == InitParser /\ [][NextParser]_vars

IsParsed == last.op = "_parsear_precio"

\* The number a text without letters spells when its right-most ',' or '.'
\* is read as the decimal point and every other separator as grouping.
Spelled(texto) ==
    LET t == re_sub(Currency \cup Whitespace, texto)
        p == IF rfind(t, ",") > rfind(t, ".") THEN rfind(t, ",") ELSE rfind(t, ".")
        digits == re_sub({",", "."}, t)
    IN IF p < 0 THEN Dec(int(digits), 0) ELSE Dec(int(digits), Len(t) - p - 1)

\* Well-formed texts of C19: unsigned digits, no letters or '%', with one ','
\* and one '.', or with a single ',' and no '.'; the value is positive.
WellFormed(texto) ==
    LET t == re_sub(Currency \cup Whitespace, texto)
        commas == Cardinality({i \in 1..Len(t) : Char(t, i) = ","})
        dots == Cardinality({i \in 1..Len(t) : Char(t, i) = "."})
    IN /\ t # ""
       /\ \A i \in 1..Len(t) : Char(t, i) \in DigitChars \cup {",", "."}
       /\ Char(t, 1) \in DigitChars
       /\ commas = 1
       /\ dots <= 1
       /\ Spelled(texto).n > 0

\* C19: both parsers read the right-most of ',' and '.' as the decimal point
\* and the other as a thousands separator, and a lone ',' as the decimal
\* point: "1.234,56" and "1,234.56" give 1234.56, "36,00" gives 36.0, and
\* every well-formed text gives the number it spells.
C19_RightmostSeparatorIsDecimal ==
    IsParsed =>
        /\ last.texto \in {"1.234,56", "1,234.56"} => last.ret = Dec(123456, 2)
        /\ last.texto = "36,00" => last.ret = Dec(36, 0)
        /\ WellFormed(last.texto) => last.ret = Spelled(last.texto)

C19_Witness ==
    /\ IsParsed
    /\ last.parser = "justETF"
    /\ last.texto = "1.234,56"
    /\ last.ret = Dec(123456, 2)

\* C20: neither parser returns 0 or a negative number: the result is None for
\* the empty text, for a text that is not a number, and for every text that
\* spells a number <= 0.
C20_NeverNonPositive ==
    IsParsed =>
        /\ last.texto \in {"", "abc"} => last.ret = None
        /\ last.ret # None => last.ret.n > 0

----------------------------------------------------------------------------
(* Exceptions: what a call does when an upstream request or a parse fails *)

IsQuote(q) == q # None /\ q # Raised /\ DOMAIN q = {"precio", "nombre", "fuente"}

\* Upstream answers of the three sources, failures included: each request may
\* raise, answer a status other than 200, or answer a page / JSON document
\* that cannot be parsed.
YahooAnswers ==
    {y \in YahooResponses :
        /\ y.regularMarketPrice \in {None, F(1)}
        /\ y.currentPrice = None /\ y.navPrice = None /\ y.previousClose = None
        /\ y.hist \in {<<>>, <<1>>}}

JustETFAnswers == {r \in JustETFResponses : r.precio_api \in {None, F(1)}}

MorningstarAnswers ==
    {r \in MorningstarResponses :
        /\ r.n = "N" /\ r.url_ok /\ r.fund_ok /\ r.alt_ok /\ r.alt_h1 = "N"
        /\ r.precio \in {None, F(1)} /\ r.alt_precio = None}

\* scrapers.py:1274-1281 / 1283-1290: try: scraper.buscar_por_isin(isin)
\* except Exception: pass -- an exception of the scraper counts as no answer.
Catch(f) == IF f.data = Raised THEN Fetched(None, FALSE) ELSE f

\* price_fetcher.py:62-63: obtener_precio calls self._obtener_yahoo(ticker)
\* outside any try statement, so an exception of that call leaves
\* obtener_precio; the scrapers are called under the try statements of
\* buscar_precio_alternativo.
obtener_precio_raising(ticker, isin, pc, jc, mc, t, sd, fy, fj, fm) ==
    IF ~PF_CacheHit(pc, CacheKey(ticker, isin), t) /\ ~Blank(ticker) /\ fy = Raised
    THEN [ret |-> Raised, hit |-> FALSE, log |-> <<>>, pf |-> pc, je |-> jc, ms |-> mc]
    ELSE obtener_precio(ticker, isin, pc, jc, mc, t, sd, fy, Catch(fj), Catch(fm))

Failed(op, ticker, isin, y, rj, rm, ret) ==
    [op |-> op, ticker |-> ticker, isin |-> isin,
     yahoo |-> y, justetf |-> rj, morningstar |-> rm, ret |-> ret]

NoAnswer == [raises |-> FALSE]

InitErrores ==
    /\ Idle
    /\ last = [op |-> "init"]
    /\ calls = 0

CommitErrores(c) ==
    /\ pf_cache' = c.pf
    /\ je_cache' = c.je
    /\ ms_cache' = c.ms
    /\ calls' = calls + 1
    /\ UNCHANGED <<now, scrapers_disponibles, pf_writer, _cambio_diario_cache, _cache_timestamp>>

\* PriceFetcher.obtener_precio with every upstream answer, failures included
ErrObtenerPrecio ==
    /\ calls = 0
    /\ \E ticker \in Tickers, isin \in Isins :
         /\ <<ticker, isin>> \in Requests
         /\ \E y \in IF Blank(ticker) THEN {NoAnswer} ELSE YahooAnswers :
            \E rj \in IF isin = "" THEN {NoAnswer} ELSE JustETFAnswers :
            \E rm \in IF isin = "" THEN {NoAnswer} ELSE MorningstarAnswers :
               LET fy == IF Blank(ticker) THEN None ELSE _obtener_yahoo(ticker, y)
                   fj == IF isin = "" THEN NoFetch ELSE JE_Fetch(isin, rj)
                   fm == IF isin = "" THEN NoFetch ELSE MS_Fetch(isin, rm)
                   c == obtener_precio_raising(ticker, isin, pf_cache, je_cache, ms_cache,
                                               now, scrapers_disponibles, fy, fj, fm)
               IN /\ CommitErrores(c)
                  /\ last' = Failed("obtener_precio", ticker, isin, y, rj, rm, c.ret)

\* PriceFetcher.obtener_precio_por_isin with every upstream answer
ErrObtenerPrecioPorIsin ==
    /\ calls = 0
    /\ \E isin \in RealIsins, rj \in JustETFAnswers, rm \in MorningstarAnswers :
         LET c == obtener_precio_por_isin(isin, pf_cache, je_cache, ms_cache, now,
                                          scrapers_disponibles,
                                          Catch(JE_Fetch(isin, rj)), Catch(MS_Fetch(isin, rm)))
         IN /\ CommitErrores(c)
            /\ last' = Failed("obtener_precio_por_isin", "", isin, NoAnswer, rj, rm, c.ret)

\* scrapers.buscar_precio_alternativo with every upstream answer
ErrBuscarPrecioAlternativo ==
    /\ calls = 0
    /\ \E isin \in RealIsins, rj \in JustETFAnswers, rm \in MorningstarAnswers :
         LET c == buscar_precio_alternativo(isin, je_cache, ms_cache, now,
                                            Catch(JE_Fetch(isin, rj)), Catch(MS_Fetch(isin, rm)))
         IN /\ CommitErrores([pf |-> pf_cache, je |-> c.je, ms |-> c.ms])
            /\ last' = Failed("buscar_precio_alternativo", "", isin, NoAnswer, rj, rm, c.ret)

NextErrores == ErrObtenerPrecio \/ ErrObtenerPrecioPorIsin \/ ErrBuscarPrecioAlternativo

SpecErrores == InitErrores /\ [][NextErrores]_vars

\* Some upstream request of the last call failed in transport or in parsing.
UpstreamFailed ==
    /\ last.op # "init"
    /\ \/ last.yahoo.raises
       \/ last.justetf.raises
       \/ last.morningstar.raises
       \/ (last.morningstar # NoAnswer /\
             (~last.morningstar.search_ok \/ last.morningstar.json = "error"
              \/ last.morningstar.alt_raises))

\* C12: whatever combination of upstream requests fails, obtener_precio,
\* obtener_precio_por_isin and buscar_precio_alternativo end with a quote or
\* with None: no exception leaves them.
C12_NoExceptionEscapes ==
    last.op # "init" => (last.ret = None \/ IsQuote(last.ret))

C12_Witness ==
    /\ UpstreamFailed
    /\ last.op = "obtener_precio"
    /\ last.yahoo.raises /\ last.justetf.raises
    /\ last.morningstar # NoAnswer /\ last.morningstar.json = "error"
    /\ last.ret = None

----------------------------------------------------------------------------
(* Calendar.  In the specifications of the daily change and of the       *)
(* historical series the clock `now` counts the minutes since             *)
(* 2026-11-01 00:00 (a Sunday); every date lies in November 2026.         *)

At(d, h, m) == ((d - 1) * 24 + h) * 60 + m

\* ahora.day, ahora.hour, ahora.weekday() (Monday is 0, Sunday is 6)
dia(t) == t \div 1440 + 1
hora(t) == (t % 1440) \div 60
weekday(d) == (d + 5) % 7

\* d.strftime('%Y-%m-%d')
strftime(d) == "2026-11-" \o (IF d < 10 THEN "0" ELSE "") \o ToString(d)

\* datetime.strptime(s, '%Y-%m-%d') succeeds / the day it yields
IsDate(s) == Len(s) = 10 /\ SubSeq(s, 1, 8) = "2026-11-" /\ AllDigits(SubSeq(s, 9, 10))
strptime(s) == int(SubSeq(s, 9, 10))

\* ord(c) for the characters of a date
Ord(c) == IF c = "-" THEN 45 ELSE 48 + DigitVal(c)

\* a < b on str: lexicographic by character code
RECURSIVE StrLess(_, _)
StrLess(a, b) ==
    IF b = "" THEN FALSE
    ELSE IF a = "" THEN TRUE
    ELSE IF Char(a, 1) = Char(b, 1)
         THEN StrLess(SubSeq(a, 2, Len(a)), SubSeq(b, 2, Len(b)))
         ELSE Ord(Char(a, 1)) < Ord(Char(b, 1))

\* f"{fecha.day} {meses[fecha.month-1]} {fecha.year}"
FechaFormateada(d) == ToString(d) \o " nov 2026"

MensajeCerrado(d) == "Al cierre: " \o FechaFormateada(d) \o " · Mercado cerrado"
MensajeCierre(d) == "Al cierre: " \o FechaFormateada(d)

----------------------------------------------------------------------------
(* Upstream series: what justETF's performance-chart and yfinance's       *)
(* history report.                                                        *)

\* Longest series an upstream reports, in points
MaxPoints == 2

\* Days of November 2026 for which the upstreams have a point: Thursday 5,
\* Monday 9 and Wednesday 11 (9 - 5 = 4 days, 11 - 5 = 6 days).
SeriesDays == {5, 9, 11}

Point(date, raw) == [date |-> date, raw |-> raw]
\* value.raw of a point; 0 is what .get('raw', 0) gives for a missing value
SeriesPrices == {0, 1}
Points == {Point(strftime(d), p) : d \in SeriesDays, p \in SeriesPrices}

AllSeries == UNION {[1..n -> Points] : n \in 0..MaxPoints}

Increasing(s) == \A i \in 1..(Len(s) - 1) : strptime(s[i].date) < strptime(s[i + 1].date)

\* One point per trading day, in the order of the days.
SortedSeries == {s \in AllSeries : Increasing(s)}

\* No upstream reports a point of a day that has not begun.
Known(s, t) == \A i \in 1..Len(s) : strptime(s[i].date) <= dia(t)

----------------------------------------------------------------------------
(* Daily change: scrapers.obtener_cambio_diario_*                         *)

_CACHE_DURATION_MINUTES == 15

\* A change in percent.  pct is the value the code holds; the other fields
\* record where it came from: the source, the dates of the two series points
\* it was computed from (<<>> when it was not computed from two points of a
\* series) and the date its latest price is of ("" when no date is known).
Cambio(pct, fuente, puntos, asof) ==
    [pct |-> pct, fuente |-> fuente, puntos |-> puntos, asof |-> asof]

\* ((hoy - ayer) / ayer) * 100
Pct(hoy, ayer) == ((hoy - ayer) * 100) \div ayer

Gap(puntos) == strptime(puntos[2]) - strptime(puntos[1])

\* One answer of justETF's quote endpoint.
QuoteAnswers ==
    {[ok |-> FALSE, latestQuote |-> None, dailyChangePercent |-> None]}
    \cup [ok : {TRUE}, latestQuote : {None, F(2)}, dailyChangePercent : {None, F(50)}]

\* One answer of yfinance: fast_info and history(period='5d').
YahooDailyAnswers ==
    [raises : BOOLEAN, last_price : {None, F(2)}, previous_close : {None, F(1)},
     hist : SortedSeries]

\* scrapers.py:51-97  obtener_cambio_diario_yahoo after the cache check
YahooDaily(y) ==
    LET n == Len(y.hist)
        asof == IF n > 0 THEN y.hist[n].date ELSE ""
    IN IF y.raises THEN None
       ELSE IF Truthy(y.last_price) /\ Truthy(y.previous_close) /\ y.previous_close.v > 0
       THEN Cambio(Pct(y.last_price.v, y.previous_close.v), "yahoo", <<>>, asof)
       ELSE IF n >= 2
       THEN LET puntos == <<y.hist[n - 1].date, y.hist[n].date>>
            IN IF Gap(puntos) <= 4 /\ y.hist[n - 1].raw > 0
               THEN Cambio(Pct(y.hist[n].raw, y.hist[n - 1].raw), "yahoo", puntos, asof)
               ELSE None
       ELSE None

\* The module's cache: the dict of entries (a function whose domain is the
\* keys present) and the one timestamp they share.
DC(cache, ts) == [cache |-> cache, ts |-> ts]

\* scrapers.py:47 / 116
CacheFresh(dc, t) ==
    dc.ts # None /\ (t - dc.ts.v) * 60 < _CACHE_DURATION_MINUTES * 60

\* scrapers.py:65-66, 86-87, 125-126, 132-133, 139-140
DC_Write(dc, key, cambio, t) ==
    DC([k \in DOMAIN dc.cache \cup {key} |->
          IF k = key THEN [cambio |-> cambio] ELSE dc.cache[k]], F(t))

\* scrapers.py:27-97  obtener_cambio_diario_yahoo; fy is what yfinance's
\* answer gives (YahooDaily), used on a cache miss.
obtener_cambio_diario_yahoo(cache_key, dc, t, fy) ==
    IF CacheFresh(dc, t) /\ cache_key \in DOMAIN dc.cache
    THEN [ret |-> dc.cache[cache_key].cambio, dc |-> dc, hit |-> TRUE]
    ELSE IF fy # None
    THEN [ret |-> fy, dc |-> DC_Write(dc, cache_key, fy, t), hit |-> FALSE]
    ELSE [ret |-> None, dc |-> dc, hit |-> FALSE]

\* scrapers.py:265-362  _obtener_cambio_api_justetf: ok is the outcome of the
\* performance-chart request (status 200, JSON parsed), q the quote answer.
_obtener_cambio_api_justetf(ok, series, q, t) ==
    LET n == Len(series)
        seen == IF ok THEN series ELSE <<>>
        cierre_ayer == IF ok /\ n >= 2 THEN F(series[n - 1].raw) ELSE None
        latest == IF q.ok THEN q.latestQuote ELSE None
        precio_actual == IF latest = None /\ Len(seen) >= 1 THEN F(seen[n].raw) ELSE latest
        hoy == strftime(dia(t))
    IN IF q.ok /\ q.dailyChangePercent # None
       THEN Cambio(q.dailyChangePercent.v, "justetf", <<>>, hoy)
       ELSE IF Truthy(precio_actual) /\ Truthy(cierre_ayer) /\ cierre_ayer.v > 0
       THEN IF latest = None
            THEN Cambio(Pct(precio_actual.v, cierre_ayer.v), "justetf",
                        <<series[n - 1].date, series[n].date>>, series[n].date)
            ELSE Cambio(Pct(precio_actual.v, cierre_ayer.v), "justetf", <<>>, hoy)
       ELSE None

RECURSIVE Filtered(_)
\* scrapers.py:1031-1044: the points with a date and a price, in upstream order
Filtered(series) ==
    IF series = <<>> THEN <<>>
    ELSE (IF Head(series).date # "" /\ Head(series).raw # 0
          THEN <<Head(series)>> ELSE <<>>) \o Filtered(Tail(series))

\* scrapers.py:965-1065  JustETFScraper.obtener_historico: ok is the outcome of
\* the request; None, or the dates and prices of the series as reported.
JE_obtener_historico(ok, series) ==
    LET kept == Filtered(series)
    IN IF ok /\ kept # <<>>
       THEN [fechas |-> [i \in 1..Len(kept) |-> kept[i].date],
             precios |-> [i \in 1..Len(kept) |-> kept[i].raw]]
       ELSE None

\* scrapers.py:365-399  _obtener_cambio_historico_justetf
_obtener_cambio_historico_justetf(ok, series) ==
    LET historico == JE_obtener_historico(ok, series)
    IN IF historico = None THEN None
       ELSE LET n == Len(historico.precios)
            IN IF n < 2 THEN None
               ELSE LET puntos == <<historico.fechas[n - 1], historico.fechas[n]>>
                    IN IF IsDate(puntos[1]) /\ IsDate(puntos[2]) /\ Gap(puntos) > 4
                       THEN None
                       ELSE IF historico.precios[n - 1] > 0
                       THEN Cambio(Pct(historico.precios[n], historico.precios[n - 1]),
                                   "justetf", puntos, puntos[2])
                       ELSE None

\* scrapers.py:100-143  obtener_cambio_diario_justetf; j.api and j.hist are
\* what _obtener_cambio_api_justetf and _obtener_cambio_historico_justetf
\* return if they are called, fy what Yahoo's answer gives.
obtener_cambio_diario_justetf(isin, dc, t, j, fy) ==
    IF CacheFresh(dc, t) /\ isin \in DOMAIN dc.cache /\ dc.cache[isin].cambio # None
    THEN [ret |-> dc.cache[isin].cambio, dc |-> dc, hit |-> TRUE]
    ELSE IF j.api # None
    THEN [ret |-> j.api, dc |-> DC_Write(dc, isin, j.api, t), hit |-> FALSE]
    ELSE LET y == obtener_cambio_diario_yahoo(isin, dc, t, fy)
         IN IF y.ret # None
            THEN [ret |-> y.ret, dc |-> DC_Write(y.dc, isin, y.ret, t), hit |-> FALSE]
            ELSE IF j.hist # None
            THEN [ret |-> j.hist, dc |-> DC_Write(y.dc, isin, j.hist, t), hit |-> FALSE]
            ELSE [ret |-> None, dc |-> y.dc, hit |-> FALSE]

\* scrapers.py:168-198: the change and the date of the last point of the
\* 15-day series ("" when fecha_ultimo stays None)
InfoFetch(ok, series) ==
    LET n == Len(series)
    IN IF ok /\ n >= 2
       THEN [cambio |-> IF series[n - 1].raw > 0
                        THEN Cambio(Pct(series[n].raw, series[n - 1].raw), "justetf",
                                    <<series[n - 1].date, series[n].date>>, series[n].date)
                        ELSE None,
             fecha_ultimo |-> series[n].date]
       ELSE [cambio |-> None, fecha_ultimo |-> ""]

\* The dict returned by obtener_cambio_diario_con_info (fecha_cierre "" is None).
Resultado(cambio, fecha_cierre, mercado_cerrado, mensaje) ==
    [cambio |-> cambio, fecha_cierre |-> fecha_cierre,
     mercado_cerrado |-> mercado_cerrado, mensaje |-> mensaje]

\* scrapers.py:146-261  obtener_cambio_diario_con_info; j.info is what the
\* request of lines 168-198 gives.
obtener_cambio_diario_con_info(isin, dc, t, j, fy) ==
    LET info == j.info
        fallback == IF info.cambio = None
                    THEN obtener_cambio_diario_justetf(isin, dc, t, j, fy)
                    ELSE [ret |-> info.cambio, dc |-> dc, hit |-> FALSE]
        hoy == dia(t)
        es_fin_de_semana == weekday(hoy) >= 5
        hora_actual == hora(t)
        fuera_horario == hora_actual < 8 \/ hora_actual >= 22
        fecha_ultimo == info.fecha_ultimo
        mercado_cerrado1 ==
            StrLess(fecha_ultimo, strftime(hoy)) \/ es_fin_de_semana \/ fuera_horario
        dias_desde_viernes == IF weekday(hoy) - 4 < 0 THEN weekday(hoy) - 4 + 7
                              ELSE weekday(hoy) - 4
        mercado_cerrado2 == es_fin_de_semana \/ fuera_horario
    IN [dc |-> fallback.dc,
        resultado |->
          IF fecha_ultimo # "" /\ IsDate(fecha_ultimo)
          THEN Resultado(fallback.ret, FechaFormateada(strptime(fecha_ultimo)),
                         mercado_cerrado1,
                         IF mercado_cerrado1 THEN MensajeCerrado(strptime(fecha_ultimo))
                         ELSE MensajeCierre(strptime(fecha_ultimo)))
          ELSE IF es_fin_de_semana
          THEN Resultado(fallback.ret, FechaFormateada(hoy - dias_desde_viernes),
                         mercado_cerrado2, MensajeCerrado(hoy - dias_desde_viernes))
          ELSE IF fuera_horario
          THEN LET d == IF hora_actual < 8 THEN hoy - 1 ELSE hoy
               IN Resultado(fallback.ret, FechaFormateada(d), mercado_cerrado2,
                            MensajeCerrado(d))
          ELSE Resultado(fallback.ret, "", mercado_cerrado2, "Hoy")]

----------------------------------------------------------------------------
(* Specification of the daily change: the three public functions called   *)
(* at chosen instants of the week of Monday 9 November 2026.              *)

\* Calls of the daily-change functions in one behaviour
MaxCambios == 2

\* Monday before the opening, at 07:30 and 07:40; Wednesday in trading hours
\* and after the close; Saturday.
DCInstants ==
    {At(9, 7, 30), At(9, 7, 40), At(11, 10, 0), At(11, 22, 30), At(14, 10, 0)}

\* Instants of the requests of the historical series: Wednesday at 16:00
\* and Saturday at 10:00.
HistInstants == {At(11, 16, 0), At(14, 10, 0)}

Moments == DCInstants \cup HistInstants

DailyIsin == "IE00B4L5Y983"
DailyTicker == "VWCE.DE"

\* One answer of justETF during a call: the series it holds, the outcome of
\* each of its three performance-chart requests (status 200 and JSON parsed,
\* or not) and the answer of the quote endpoint.
JustETFDailyAnswers ==
    [series : SortedSeries, info_ok : BOOLEAN, api_ok : BOOLEAN,
     quote : QuoteAnswers, hist_ok : BOOLEAN]

\* What the three justETF fetches of the daily change give for an answer.
JEDaily(a, t) ==
    [info |-> InfoFetch(a.info_ok, a.series),
     api |-> _obtener_cambio_api_justetf(a.api_ok, a.series, a.quote, t),
     hist |-> _obtener_cambio_historico_justetf(a.hist_ok, a.series)]

\* A fetch that the code does not reach (the one before it gave a change) is
\* left out: its request is drawn as failed.
Reached(j) ==
    /\ j.info.cambio # None => (j.api = None /\ j.hist = None)
    /\ j.api # None => j.hist = None

\* What justETF can give at each instant.
JustETFDaily ==
    [t \in DCInstants |->
        {j \in {JEDaily(a, t) : a \in {x \in JustETFDailyAnswers : Known(x.series, t)}} :
            Reached(j)}]

\* What Yahoo can give at each instant.
YahooCambios ==
    [t \in Moments |->
        {YahooDaily(y) : y \in {x \in YahooDailyAnswers : Known(x.hist, t)}}]

\* The answer of Yahoo with the most recent date among those it can give at t.
LatestYahoo ==
    [t \in DCInstants |->
        CHOOSE c \in YahooCambios[t] :
            /\ c # None /\ c.asof # ""
            /\ \A o \in YahooCambios[t] :
                 (o # None /\ o.asof # "") => strptime(o.asof) <= strptime(c.asof)]

\* The answers of Yahoo to draw: every answer when the call asks Yahoo, else
\* none and the most recent one (what Yahoo would have answered).
YahooDraws(asked, t) == IF asked THEN YahooCambios[t] ELSE {None, LatestYahoo[t]}

NoInfo == [cambio |-> None, fecha_ultimo |-> ""]

Changed(op, key, t, resultado, hit, yahoo) ==
    [op |-> op, key |-> key, at |-> t, resultado |-> resultado, hit |-> hit,
     yahoo |-> yahoo]

InitDaily ==
    /\ now = At(9, 7, 30)
    /\ scrapers_disponibles = TRUE
    /\ pf_cache = [k \in Keys |-> None]
    /\ ms_cache = [i \in RealIsins |-> None]
    /\ je_cache = [i \in RealIsins |-> None]
    /\ pf_writer = [k \in Keys |-> NoWriter]
    /\ _cambio_diario_cache = <<>>
    /\ _cache_timestamp = None
    /\ last = [op |-> "init"]
    /\ calls = 0

UnchangedResolver ==
    UNCHANGED <<scrapers_disponibles, pf_cache, ms_cache, je_cache, pf_writer>>

TickDaily ==
    /\ calls < MaxCambios
    /\ \E t \in DCInstants :
         /\ t > now
         /\ now' = t
    /\ UNCHANGED <<_cambio_diario_cache, _cache_timestamp, last, calls>>
    /\ UnchangedResolver

CommitDaily(dc) ==
    /\ _cambio_diario_cache' = dc.cache
    /\ _cache_timestamp' = dc.ts
    /\ calls' = calls + 1
    /\ UNCHANGED now
    /\ UnchangedResolver

\* obtener_cambio_diario_con_info(isin)
ObtenerCambioDiarioConInfo ==
    /\ calls < MaxCambios
    /\ LET dc == DC(_cambio_diario_cache, _cache_timestamp)
           isin == DailyIsin
           served == CacheFresh(dc, now) /\ isin \in DOMAIN dc.cache
       IN \E j \in JustETFDaily[now] :
            LET falls == j.info.cambio = None /\ ~served
                asks == falls /\ j.api = None
            IN /\ (~falls) => (j.api = None /\ j.hist = None)
               /\ \E fy \in YahooDraws(asks, now) :
                    /\ (asks /\ fy # None) => j.hist = None
                    /\ LET c == obtener_cambio_diario_con_info(isin, dc, now, j, fy)
                       IN /\ CommitDaily(c.dc)
                          /\ last' = Changed("obtener_cambio_diario_con_info", isin, now,
                                             c.resultado, FALSE, fy)
                                      @@ ("fecha_ultimo" :> j.info.fecha_ultimo)

\* obtener_cambio_diario_justetf(isin), as obtener_cambios_diarios_batch calls it
ObtenerCambioDiarioJustETF ==
    /\ calls < MaxCambios
    /\ LET dc == DC(_cambio_diario_cache, _cache_timestamp)
           isin == DailyIsin
           served == CacheFresh(dc, now) /\ isin \in DOMAIN dc.cache
       IN \E j \in {[x EXCEPT !.info = NoInfo] : x \in JustETFDaily[now]} :
            LET asks == ~served /\ j.api = None
            IN /\ served => (j.api = None /\ j.hist = None)
               /\ \E fy \in YahooDraws(asks, now) :
                    /\ (asks /\ fy # None) => j.hist = None
                    /\ LET c == obtener_cambio_diario_justetf(isin, dc, now, j, fy)
                       IN /\ CommitDaily(c.dc)
                          /\ last' = Changed("obtener_cambio_diario_justetf", isin, now,
                                             Resultado(c.ret, "", FALSE, ""), c.hit, fy)

\* obtener_cambio_diario_yahoo(ticker)
ObtenerCambioDiarioYahoo ==
    /\ calls < MaxCambios
    /\ LET dc == DC(_cambio_diario_cache, _cache_timestamp)
           ticker == DailyTicker
           served == CacheFresh(dc, now) /\ ticker \in DOMAIN dc.cache
       IN \E fy \in IF served THEN {None} ELSE YahooCambios[now] :
            LET c == obtener_cambio_diario_yahoo(ticker, dc, now, fy)
            IN /\ CommitDaily(c.dc)
               /\ last' = Changed("obtener_cambio_diario_yahoo", ticker, now,
                                  Resultado(c.ret, "", FALSE, ""), c.hit, fy)

NextDaily ==
    \/ TickDaily
    \/ ObtenerCambioDiarioConInfo
    \/ ObtenerCambioDiarioJustETF
    \/ ObtenerCambioDiarioYahoo

SpecDaily == InitDaily /\ [][NextDaily]_vars

IsDaily == last.op \in {"obtener_cambio_diario_con_info", "obtener_cambio_diario_justetf",
                        "obtener_cambio_diario_yahoo"}

IsConInfo == last.op = "obtener_cambio_diario_con_info"

\* C11: a change returned by the daily-change functions is never computed from
\* two points of a series whose dates are more than 4 days apart.
C11_NoChangeAcrossGap ==
    (IsDaily /\ last.resultado.cambio # None /\ Len(last.resultado.cambio.puntos) = 2)
        => Gap(last.resultado.cambio.puntos) <= 4

\* C13: when obtener_cambio_diario_con_info returns the change of justETF and
\* Yahoo has a usable change as well, the date of Yahoo's change is not more
\* recent than the date of the change returned (with both usable, the more
\* recent one is returned, justETF's on a tie).
C13_MostRecentSourceWins ==
    (/\ IsConInfo
     /\ last.resultado.cambio # None
     /\ last.resultado.cambio.fuente = "justetf"
     /\ last.resultado.cambio.asof # ""
     /\ last.yahoo # None
     /\ last.yahoo.asof # "")
        => strptime(last.yahoo.asof) <= strptime(last.resultado.cambio.asof)

\* C14: when the change returned by obtener_cambio_diario_con_info is of a
\* date before today, or today is Saturday or Sunday, or the hour is outside
\* 08:00-22:00, the result has mercado_cerrado = True and its message is
\* "Al cierre: <date> · Mercado cerrado".
C14_ClosedStatus ==
    IsConInfo =>
        LET r == last.resultado
            stale == /\ r.cambio # None
                     /\ r.cambio.asof # ""
                     /\ strptime(r.cambio.asof) < dia(last.at)
            weekend == weekday(dia(last.at)) >= 5
            outside == hora(last.at) < 8 \/ hora(last.at) >= 22
        IN (stale \/ weekend \/ outside) =>
               /\ r.mercado_cerrado
               /\ \E d \in 1..30 : r.mensaje = MensajeCerrado(d)

----------------------------------------------------------------------------
(* Historical series: web_app.api_historical                              *)

\* s[:n]
Left(s, n) == SubSeq(s, 1, IF Len(s) < n THEN Len(s) ELSE n)

\* str.isalpha(), str.isalnum() on ASCII text
isalpha(s) == s # "" /\ \A i \in 1..Len(s) : Char(s, i) \in Letters
isalnum(s) == s # "" /\ \A i \in 1..Len(s) : Char(s, i) \in Letters \cup DigitChars

\* isin and isin[:2] in ['IE', 'LU', 'DE', 'FR', 'NL', 'GB']
es_etf_europeo(isin) == isin # "" /\ Left(isin, 2) \in {"IE", "LU", "DE", "FR", "NL", "GB"}

\* ticker and ticker not in ['null', 'undefined', 'none', '']
ticker_presente(ticker) == ticker \notin {"null", "undefined", "none", ""}

ticker_es_isin(ticker) ==
    /\ ticker # ""
    /\ Len(ticker) = 12
    /\ isalpha(Left(ticker, 2))
    /\ isalnum(SubSeq(ticker, 3, Len(ticker)))

ticker_valido_yahoo(ticker) == ticker_presente(ticker) /\ ~ticker_es_isin(ticker)

periodo_map ==
    ("1w" :> "1mo") @@ ("1mo" :> "1mo") @@ ("3mo" :> "3mo") @@ ("6mo" :> "6mo")
    @@ ("1y" :> "1y") @@ ("2y" :> "2y") @@ ("5y" :> "5y") @@ ("10y" :> "5y")
    @@ ("ytd" :> "1y") @@ ("max" :> "5y")

\* periodo_map.get(periodo, '1y')
periodo_justetf(periodo) ==
    IF periodo \in DOMAIN periodo_map THEN periodo_map[periodo] ELSE "1y"

\* The histories yfinance holds: one point per trading day, the last
\* MaxPoints days up to the last day it has, every close positive.
YahooHistSeries ==
    {s \in SortedSeries :
        /\ s # <<>>
        /\ \A i \in 1..Len(s) : s[i].raw > 0
        /\ \A i \in 1..(Len(s) - 1) :
             ~\E d \in SeriesDays : strptime(s[i].date) < d /\ d < strptime(s[i + 1].date)
        /\ \/ Len(s) = MaxPoints
           \/ ~\E d \in SeriesDays : d < strptime(s[1].date)}

\* One answer of yfinance to history(period=periodo): the request raises, or
\* it gives a frame indexed by increasing dates (hist, empty for no data).
YahooHistAnswers == [raises : BOOLEAN, hist : YahooHistSeries \cup {<<>>}]

\* s[::-1]
Reversed(s) == [i \in 1..Len(s) |-> s[Len(s) + 1 - i]]

\* The series justETF's performance-chart reports: the trading days in
\* order, or newest first, or with the last point reported twice.
JustETFHistSeries ==
    YahooHistSeries
    \cup {Reversed(s) : s \in YahooHistSeries}
    \cup {Append(s, s[Len(s)]) : s \in YahooHistSeries}

\* The frame of prices yfinance gives: the index of dates and the column Close
DataFrame(hist) ==
    [index |-> [i \in 1..Len(hist) |-> hist[i].date],
     Close |-> [i \in 1..Len(hist) |-> hist[i].raw]]

\* price_fetcher.py:185-202  PriceFetcher.obtener_historico
PF_obtener_historico(y) ==
    IF y.raises THEN None
    ELSE IF y.hist # <<>> THEN DataFrame(y.hist) ELSE None

\* The number of parameters of scrapers.obtener_cambio_diario_con_info
ParametrosConInfo == 1

\* A call of obtener_cambio_diario_con_info with the positional arguments
\* args: TypeError unless there is one argument per parameter.
Llamar_obtener_cambio_diario_con_info(args, dc, t, j, fy) ==
    IF Len(args) # ParametrosConInfo THEN Raised
    ELSE obtener_cambio_diario_con_info(args[1], dc, t, j, fy)

\* The daily change after a step of the handler: the value (None or the
\* float), the status message (None or the text), the cache, the step that
\* produced the value and the strings Yahoo was queried with.
CambioDiario(cambio_diario, mensaje_cierre, dc, productor, yahoo) ==
    [cambio_diario |-> cambio_diario, mensaje_cierre |-> mensaje_cierre, dc |-> dc,
     productor |-> productor, yahoo |-> yahoo]

\* web_app.py:4443-4470: the daily change computed before the series; u.j and
\* u.fy are what the upstreams give if they are asked.
CambioPrevio(ticker, isin, dc, t, u) ==
    LET nada == CambioDiario(None, None, dc, "", {})
        info == IF es_etf_europeo(isin)
                THEN Llamar_obtener_cambio_diario_con_info(<<isin, ticker>>, dc, t, u.j, u.fy)
                ELSE None
        europeo == IF info = None \/ info = Raised THEN nada
                   ELSE CambioDiario(IF info.resultado.cambio = None THEN None
                                     ELSE F(info.resultado.cambio.pct),
                                     F(info.resultado.mensaje), info.dc,
                                     IF info.resultado.cambio = None THEN ""
                                     ELSE "obtener_cambio_diario_con_info", {})
    IN IF info = Raised THEN nada
       ELSE IF europeo.cambio_diario = None /\ ticker_presente(ticker)
       THEN LET served == CacheFresh(europeo.dc, t) /\ ticker \in DOMAIN europeo.dc.cache
                y == obtener_cambio_diario_yahoo(ticker, europeo.dc, t, u.fy)
                asked == IF served THEN {} ELSE {ticker}
                es_fin_de_semana == weekday(dia(t)) >= 5
                fuera_horario == hora(t) < 15 \/ hora(t) >= 22
            IN IF y.ret = None
               THEN CambioDiario(None, europeo.mensaje_cierre, y.dc, "", asked)
               ELSE CambioDiario(F(y.ret.pct),
                                 IF es_fin_de_semana \/ fuera_horario
                                 THEN F("Mercado cerrado") ELSE europeo.mensaje_cierre,
                                 y.dc, "obtener_cambio_diario_yahoo", asked)
       ELSE europeo

\* usar_justetf with justetf_fecha_ultima > yahoo_fecha_ultima: a tie goes to
\* Yahoo
usar_justetf_YahooOnTie(yahoo_fecha_ultima, justetf_fecha_ultima) ==
    IF yahoo_fecha_ultima # None /\ justetf_fecha_ultima # None
    THEN StrLess(yahoo_fecha_ultima.v, justetf_fecha_ultima.v)
    ELSE justetf_fecha_ultima # None

\* web_app.py:4515-4526: yahoo_fecha_ultima and justetf_fecha_ultima are None
\* or the last date of the series obtained
usar_justetf(yahoo_fecha_ultima, justetf_fecha_ultima) ==
    IF yahoo_fecha_ultima # None /\ justetf_fecha_ultima # None
    THEN ~StrLess(justetf_fecha_ultima.v, yahoo_fecha_ultima.v)
    ELSE justetf_fecha_ultima # None

\* yahoo_historico.index[-1].strftime('%Y-%m-%d') / resultado['fechas'][-1]
UltimaYahoo(yh) == IF yh # None THEN F(yh.index[Len(yh.index)]) ELSE None
UltimaJustETF(je) == IF je # None THEN F(je.fechas[Len(je.fechas)]) ELSE None

\* web_app.py:4585-4601, 4631-4647: the message from the last date of the
\* chosen series
MensajeDeFecha(fecha, t, mensaje_cierre) ==
    IF IsDate(fecha)
    THEN LET es_fin_de_semana == weekday(dia(t)) >= 5
             fuera_horario == hora(t) < 8 \/ hora(t) >= 22
             mercado_cerrado ==
                 StrLess(fecha, strftime(dia(t))) \/ es_fin_de_semana \/ fuera_horario
         IN F(IF mercado_cerrado THEN MensajeCerrado(strptime(fecha))
              ELSE MensajeCierre(strptime(fecha)))
    ELSE mensaje_cierre

\* jsonify({'success': True, 'data': {...}, 'fuente': ...})
Respuesta(fuente, fechas, precios, cambio_diario, mensaje_cierre) ==
    [success |-> TRUE, fuente |-> fuente, fechas |-> fechas, precios |-> precios,
     cambio_diario |-> cambio_diario, mensaje_cierre |-> mensaje_cierre]

SinDatos == [success |-> FALSE, error |-> "No hay datos históricos disponibles"]

\* What a request did: the response, the cache, the step that produced the
\* daily change, the strings Yahoo was queried with, the period justETF was
\* asked for ("" when it was not asked) and the last dates the handler saw.
Hecho(respuesta, dc, productor, yahoo, justetf, yahoo_fecha_ultima, justetf_fecha_ultima) ==
    [respuesta |-> respuesta, dc |-> dc, productor |-> productor, yahoo |-> yahoo,
     justetf |-> justetf, yahoo_fecha_ultima |-> yahoo_fecha_ultima,
     justetf_fecha_ultima |-> justetf_fecha_ultima]

\* Mutant: the live price replaces every price of the series.
precios_final_Todos(precios, precio_gettex) ==
    IF Truthy(precio_gettex)
    THEN [i \in 1..Len(precios) |-> precio_gettex.v]
    ELSE precios

\* web_app.py:4572-4574  precios_final: the prices of the series rounded to
\* two decimals (JustETFScraper.obtener_historico has rounded them already,
\* scrapers.py:1044), the last one replaced by the live price under
\* `if precio_gettex`. The prices of the model are whole numbers.
precios_final(precios, precio_gettex) ==
    IF Truthy(precio_gettex)
    THEN [precios EXCEPT ![Len(precios)] = precio_gettex.v]
    ELSE precios

\* Mutant: the change is recomputed whether one was obtained or not.
recalcular_Siempre(cambio_diario, precios) ==
    /\ Len(precios) >= 2
    /\ precios[Len(precios) - 1] > 0

\* web_app.py:4578-4581: the change is recomputed from the last two points
\* if cambio_diario is None, the series has two points and precio_ayer > 0.
recalcular(cambio_diario, precios) ==
    /\ cambio_diario = None
    /\ Len(precios) >= 2
    /\ precios[Len(precios) - 1] > 0

\* web_app.py:4473-4675: the series of a European ETF
HistoricoEuropeo(ticker, isin, periodo, t, u, previo) ==
    LET yahoo_historico == IF ticker_valido_yahoo(ticker) THEN u.yh ELSE None
        asked == previo.yahoo \cup (IF ticker_valido_yahoo(ticker) THEN {ticker} ELSE {})
        yahoo_fecha_ultima == UltimaYahoo(yahoo_historico)
        justetf_historico == u.je
        justetf_fecha_ultima == UltimaJustETF(justetf_historico)
        usar == usar_justetf(yahoo_fecha_ultima, justetf_fecha_ultima)
        pj == periodo_justetf(periodo)
    IN IF usar /\ justetf_historico # None
       THEN LET n == Len(justetf_historico.precios)
                precio_gettex == IF u.q.ok THEN u.q.latestQuote ELSE None
                directo == u.q.ok /\ u.q.dailyChangePercent # None
                finales == precios_final(justetf_historico.precios, precio_gettex)
                cambio1 == IF directo THEN u.q.dailyChangePercent ELSE previo.cambio_diario
                recalcula == recalcular(cambio1, justetf_historico.precios)
                cambio2 == IF recalcula
                           THEN F(Pct(finales[n], justetf_historico.precios[n - 1]))
                           ELSE cambio1
                productor == IF recalcula THEN "api_historical: last two points"
                             ELSE IF directo THEN "api_historical: quote"
                             ELSE previo.productor
            IN Hecho(Respuesta("justetf", justetf_historico.fechas, finales, cambio2,
                               MensajeDeFecha(justetf_fecha_ultima.v, t,
                                              previo.mensaje_cierre)),
                     previo.dc, productor, asked, pj, yahoo_fecha_ultima,
                     justetf_fecha_ultima)
       ELSE IF yahoo_historico # None
       THEN LET n == Len(yahoo_historico.Close)
                recalcula == n >= 2 /\ yahoo_historico.Close[n - 1] > 0
                cambio == IF recalcula
                          THEN F(Pct(yahoo_historico.Close[n], yahoo_historico.Close[n - 1]))
                          ELSE previo.cambio_diario
            IN Hecho(Respuesta("yahoo", yahoo_historico.index, yahoo_historico.Close,
                               cambio,
                               MensajeDeFecha(yahoo_fecha_ultima.v, t,
                                              previo.mensaje_cierre)),
                     previo.dc,
                     IF recalcula THEN "api_historical: last two points"
                     ELSE previo.productor,
                     asked, pj, yahoo_fecha_ultima, justetf_fecha_ultima)
       ELSE Hecho(SinDatos, previo.dc, previo.productor, asked, pj, yahoo_fecha_ultima,
                  justetf_fecha_ultima)

\* web_app.py:4677-4778: the series of any other instrument
HistoricoOtros(ticker, isin, periodo, t, u, previo) ==
    LET historico == IF ticker_presente(ticker) THEN u.yh ELSE None
        asked == previo.yahoo \cup (IF ticker_presente(ticker) THEN {ticker} ELSE {})
        pregunta == historico = None /\ isin # ""
        resultado == IF pregunta THEN u.je ELSE None
        pj == IF pregunta THEN periodo_justetf(periodo) ELSE ""
    IN IF resultado # None
       THEN Hecho(Respuesta("justetf", resultado.fechas, resultado.precios,
                            previo.cambio_diario, previo.mensaje_cierre),
                  previo.dc, previo.productor, asked, pj, None, UltimaJustETF(resultado))
       ELSE IF historico = None
       THEN Hecho(SinDatos, previo.dc, previo.productor, asked, pj, None, None)
       ELSE Hecho(Respuesta("yahoo", historico.index, historico.Close,
                            previo.cambio_diario, previo.mensaje_cierre),
                  previo.dc, previo.productor, asked, pj, UltimaYahoo(historico), None)

\* web_app.py:4426-4778  api_historical(ticker) with the query arguments isin
\* and periodo; u is what the upstreams give if they are asked.
api_historical(ticker, isin, periodo, dc, t, u) ==
    LET previo == CambioPrevio(ticker, isin, dc, t, u)
    IN IF es_etf_europeo(isin)
       THEN HistoricoEuropeo(ticker, isin, periodo, t, u, previo)
       ELSE HistoricoOtros(ticker, isin, periodo, t, u, previo)

----------------------------------------------------------------------------
(* Specification of the historical series: requests to                    *)
(* /api/historical/<ticker>?isin=..&periodo=.. at chosen instants.        *)

\* Requests to /api/historical in one behaviour
MaxHistorical == 1

\* The requests: the ticker of the route is absent ("null", as the page
\* sends it), a Yahoo ticker or an ISIN in the place of the ticker; the isin
\* argument is empty, a European ETF or a share of the USA.
HistTickers == {"null", "VWCE.DE", "IE00B4L5Y983"}
HistIsins == {"", "IE00B4L5Y983", "US0378331005"}
HistRequests ==
    {[ticker |-> t, isin |-> i,
      periodo |-> IF t = "null" THEN "1w" ELSE IF t = "VWCE.DE" THEN "6mo" ELSE "5d"] :
        t \in HistTickers, i \in HistIsins}

\* The answers of the quote endpoint with different effects: the request
\* fails, or it gives the last price, the daily change or both, or a last
\* price of 0.0.
QuoteAnswersHist ==
    {q \in QuoteAnswers : ~q.ok \/ q.latestQuote # None \/ q.dailyChangePercent # None}
    \cup {[ok |-> TRUE, latestQuote |-> F(0), dailyChangePercent |-> None]}

\* What yfinance gives for the daily change of a request: nothing, or the
\* change of fast_info (its 5-day history is empty).
YahooCambiosHist ==
    [t \in HistInstants |-> {c \in YahooCambios[t] : c = None \/ c.asof = ""}]

\* What yfinance's history can give at each instant.
YahooHistoricos ==
    [t \in HistInstants |->
        {PF_obtener_historico(y) : y \in {x \in YahooHistAnswers : Known(x.hist, t)}}]

\* What JustETFScraper.obtener_historico can give at each instant: the
\* performance-chart reports its points in any order.
JustETFHistoricos ==
    [t \in HistInstants |->
        {JE_obtener_historico(ok, s) :
            ok \in BOOLEAN, s \in {x \in JustETFHistSeries : Known(x, t)}}]

\* The quote endpoint not asked
NoQuote == [ok |-> FALSE, latestQuote |-> None, dailyChangePercent |-> None]

\* The fetches of obtener_cambio_diario_con_info not made
NoJustETFDaily == [info |-> NoInfo, api |-> None, hist |-> None]

InitHist ==
    /\ now = At(11, 16, 0)
    /\ scrapers_disponibles = TRUE
    /\ pf_cache = [k \in Keys |-> None]
    /\ ms_cache = [i \in RealIsins |-> None]
    /\ je_cache = [i \in RealIsins |-> None]
    /\ pf_writer = [k \in Keys |-> NoWriter]
    /\ _cambio_diario_cache = <<>>
    /\ _cache_timestamp = None
    /\ last = [op |-> "init"]
    /\ calls = 0

TickHist ==
    /\ calls < MaxHistorical
    /\ \E t \in HistInstants :
         /\ t > now
         /\ now' = t
    /\ UNCHANGED <<_cambio_diario_cache, _cache_timestamp, last, calls>>
    /\ UnchangedResolver

CommitHist(dc) ==
    /\ _cambio_diario_cache' = dc.cache
    /\ _cache_timestamp' = dc.ts
    /\ UNCHANGED now
    /\ UnchangedResolver

\* obtener_cambio_diario_yahoo(ticker), as the other routes call it before a
\* request
CambioDiarioYahooHist ==
    /\ calls < MaxHistorical
    /\ LET dc == DC(_cambio_diario_cache, _cache_timestamp)
           served == CacheFresh(dc, now) /\ DailyTicker \in DOMAIN dc.cache
       IN \E fy \in (IF served THEN {None} ELSE YahooCambiosHist[now]) :
            CommitHist(obtener_cambio_diario_yahoo(DailyTicker, dc, now, fy).dc)
    /\ UNCHANGED <<last, calls>>

\* GET /api/historical/<ticker>?isin=<isin>&periodo=<periodo>
ApiHistorical ==
    /\ calls < MaxHistorical
    /\ calls' = calls + 1
    /\ \E r \in HistRequests :
         LET ticker == r.ticker
             isin == r.isin
             periodo == r.periodo
             dc == DC(_cambio_diario_cache, _cache_timestamp)
             europeo == es_etf_europeo(isin)
             llama == europeo /\ Len(<<isin, ticker>>) = ParametrosConInfo
             served == CacheFresh(dc, now) /\ ticker \in DOMAIN dc.cache
             asks_fy == ~europeo /\ ticker_presente(ticker) /\ ~served
             asks_yh == IF europeo THEN ticker_valido_yahoo(ticker)
                        ELSE ticker_presente(ticker)
         IN \E j \in (IF llama THEN JustETFDaily[now] ELSE {NoJustETFDaily}),
               fy \in (IF asks_fy \/ llama THEN YahooCambiosHist[now] ELSE {None}),
               yh \in (IF asks_yh THEN YahooHistoricos[now] ELSE {None}) :
              LET asks_je == europeo \/ (yh = None /\ isin # "")
              IN \E je \in (IF asks_je THEN JustETFHistoricos[now] ELSE {None}) :
                   LET asks_q == europeo /\ usar_justetf(UltimaYahoo(yh), UltimaJustETF(je))
                   IN \E q \in (IF asks_q THEN QuoteAnswersHist ELSE {NoQuote}) :
                        LET u == [j |-> j, fy |-> fy, yh |-> yh, je |-> je, q |-> q]
                        IN /\ last' = [op |-> "api_historical", ticker |-> ticker,
                                       isin |-> isin, periodo |-> periodo, at |-> now,
                                       je |-> je, q |-> q,
                                       previo |-> CambioPrevio(ticker, isin, dc, now,
                                                               u).cambio_diario,
                                       hecho |-> api_historical(ticker, isin, periodo,
                                                                dc, now, u)]
                           /\ CommitHist(last'.hecho.dc)

NextHist ==
    \/ TickHist
    \/ CambioDiarioYahooHist
    \/ ApiHistorical

SpecHist == InitHist /\ [][NextHist]_vars

IsHist == last.op = "api_historical"

\* C15: the daily change served for an instrument whose ISIN is European is
\* the one obtener_cambio_diario_con_info produced.
C15_EuropeanChangeFromConInfo ==
    (/\ IsHist
     /\ es_etf_europeo(last.isin)
     /\ last.hecho.respuesta.success
     /\ last.hecho.respuesta.cambio_diario # None)
        => last.hecho.productor = "obtener_cambio_diario_con_info"

\* C16: a request whose ticker has the shape of an ISIN never queries Yahoo
\* with that string, whatever the isin argument is.
C16_IsinTickerNotSentToYahoo ==
    (IsHist /\ ticker_es_isin(last.ticker)) => last.ticker \notin last.hecho.yahoo

\* C17: with a series from both Yahoo and justETF the response is the series
\* whose last date is the more recent (justETF's on a tie); with a series from
\* one source only it is that series; with none it is the no-data response.
C17_MoreRecentSeriesReturned ==
    IsHist =>
        LET y == last.hecho.yahoo_fecha_ultima
            j == last.hecho.justetf_fecha_ultima
            r == last.hecho.respuesta
            elegida == IF y = None THEN j
                       ELSE IF j = None THEN y
                       ELSE IF strptime(j.v) >= strptime(y.v) THEN j ELSE y
            fuente == IF y = None THEN "justetf"
                      ELSE IF j = None THEN "yahoo"
                      ELSE IF strptime(j.v) >= strptime(y.v) THEN "justetf" ELSE "yahoo"
        IN IF y = None /\ j = None THEN r = SinDatos
           ELSE /\ r.success
                /\ r.fuente = fuente
                /\ r.fechas[Len(r.fechas)] = elegida.v

\* Both sources gave a series, Yahoo's ends later, and Yahoo's was returned.
C17_Witness ==
    /\ IsHist
    /\ last.hecho.yahoo_fecha_ultima # None
    /\ last.hecho.justetf_fecha_ultima # None
    /\ strptime(last.hecho.justetf_fecha_ultima.v) < strptime(last.hecho.yahoo_fecha_ultima.v)
    /\ last.hecho.respuesta.success
    /\ last.hecho.respuesta.fuente = "yahoo"

\* C18: the dates of a series returned are strictly increasing.
C18_SeriesStrictlyIncreasing ==
    (IsHist /\ last.hecho.respuesta.success) =>
        LET fechas == last.hecho.respuesta.fechas
        IN \A i \in 1..(Len(fechas) - 1) : strptime(fechas[i]) < strptime(fechas[i + 1])

(* ------------------------------------------------------------------ *)
(* Further properties of the resolver (Spec).                           *)
(* ------------------------------------------------------------------ *)

SinPrecio == {"Morningstar (sin precio)", "justETF (sin precio)"}

\* C21: every quote the resolver returns whose price is not > 0 carries a
\* "(sin precio)" source label, never the plain label of a source.
C21_ZeroPriceIsInformational ==
    (IsCall(last) /\ Informational(last.result)) =>
        last.result.fuente \in SinPrecio

\* C29: every entry stored in the Morningstar and justETF adapter caches is
\* a tradable quote, with a price > 0.
C29_AdapterCachesHoldTradable ==
    /\ \A isin \in DOMAIN ms_cache :
           ms_cache[isin] # None => Tradable(ms_cache[isin].data)
    /\ \A isin \in DOMAIN je_cache :
           je_cache[isin] # None => Tradable(je_cache[isin].data)

NothingFetched(c) == \A i \in 1..Len(c.log) : c.log[i].result = None

\* C28: a call that finds the entry of its key expired never answers from
\* it; when the refetch yields nothing the call returns None and the expired
\* entry stays in the cache as it was; otherwise the entry is replaced by the
\* new result with the timestamp of the call.
C28_ExpiredEntryKeptOnFailedRefetch ==
    [][(/\ calls' = calls + 1
        /\ pf_cache[last'.key] # None
        /\ now - pf_cache[last'.key].timestamp >= PF_CACHE_MINUTES)
       => /\ ~last'.hit
          /\ NothingFetched(last') => last'.result = None
          /\ last'.result = None => pf_cache'[last'.key] = pf_cache[last'.key]
          /\ last'.result # None =>
                 pf_cache'[last'.key] = Entry(now, last'.result)]_vars

C28_Witness ==
    /\ IsCall(last)
    /\ last.age >= PF_CACHE_MINUTES
    /\ last.result = None
    /\ last.log # <<>>
    /\ pf_cache[last.key] # None
    /\ pf_cache[last.key].timestamp = last.at - last.age

(* ------------------------------------------------------------------ *)
(* Further properties of the daily change (SpecDaily).                  *)
(* ------------------------------------------------------------------ *)

\* The call had no date of the last point from justETF's series.
SinFechaDeFuente == IsConInfo /\ last.fecha_ultimo = ""

\* C30: when justETF gives no date of the last point, the closing date that
\* obtener_cambio_diario_con_info derives from the clock is a day from Monday
\* to Friday not later than the day of the call.
C30_ClockClosingDateIsTradingDay ==
    (SinFechaDeFuente /\ last.resultado.fecha_cierre # "") =>
        \E d \in 1..dia(last.at) :
            /\ weekday(d) < 5
            /\ last.resultado.fecha_cierre = FechaFormateada(d)

----------------------------------------------------------------------------
(* Specification of the daily-change cache: obtener_cambio_diario_yahoo    *)
(* for a ticker and obtener_cambio_diario_justetf for an ISIN, called      *)
(* within one hour of Wednesday 11 November 2026.                          *)

\* Calls of the two functions in one behaviour
MaxCacheCalls == 3

CacheInstants == {At(11, 10, 0), At(11, 10, 10), At(11, 10, 20), At(11, 10, 40)}

\* What the upstreams give during that hour (their answers depend on the
\* day only).
YahooCacheAnswers == YahooCambios[At(11, 10, 0)]
JustETFCacheAnswers == {[j EXCEPT !.info = NoInfo] : j \in JustETFDaily[At(11, 10, 0)]}

CacheKeys == {DailyTicker, DailyIsin}

\* A call of the cache specification: c is what the function returned, and
\* stored_at the instant at which the entry of each key was last written
\* before the call (None for a key never written).
CacheCall(op, key, t, c, stored_at) ==
    [op |-> op, key |-> key, at |-> t, hit |-> c.hit, ret |-> c.ret,
     stored_at |-> stored_at,
     stored |-> ~c.hit /\ c.ret # None]

StoredAt(rec) ==
    IF rec.stored THEN [rec.stored_at EXCEPT ![rec.key] = F(rec.at)]
    ELSE rec.stored_at

InitCache ==
    /\ now = At(11, 10, 0)
    /\ scrapers_disponibles = TRUE
    /\ pf_cache = [k \in Keys |-> None]
    /\ ms_cache = [i \in RealIsins |-> None]
    /\ je_cache = [i \in RealIsins |-> None]
    /\ pf_writer = [k \in Keys |-> NoWriter]
    /\ _cambio_diario_cache = <<>>
    /\ _cache_timestamp = None
    /\ last = [op |-> "init", key |-> "", at |-> now, hit |-> FALSE, ret |-> None,
               stored_at |-> [k \in CacheKeys |-> None], stored |-> FALSE]
    /\ calls = 0

TickCache ==
    /\ calls < MaxCacheCalls
    /\ \E t \in CacheInstants :
         /\ t > now
         /\ now' = t
    /\ UNCHANGED <<_cambio_diario_cache, _cache_timestamp, last, calls>>
    /\ UnchangedResolver

\* obtener_cambio_diario_yahoo(ticker)
CacheYahoo ==
    /\ calls < MaxCacheCalls
    /\ LET dc == DC(_cambio_diario_cache, _cache_timestamp)
           served == CacheFresh(dc, now) /\ DailyTicker \in DOMAIN dc.cache
       IN \E fy \in IF served THEN {None} ELSE YahooCacheAnswers :
            LET c == obtener_cambio_diario_yahoo(DailyTicker, dc, now, fy)
            IN /\ CommitDaily(c.dc)
               /\ last' = CacheCall("obtener_cambio_diario_yahoo", DailyTicker, now, c,
                                    StoredAt(last))

\* obtener_cambio_diario_justetf(isin)
CacheJustETF ==
    /\ calls < MaxCacheCalls
    /\ LET dc == DC(_cambio_diario_cache, _cache_timestamp)
           served == CacheFresh(dc, now) /\ DailyIsin \in DOMAIN dc.cache
       IN \E j \in JustETFCacheAnswers :
            LET asks == ~served /\ j.api = None
            IN /\ served => (j.api = None /\ j.hist = None)
               /\ \E fy \in IF asks THEN YahooCacheAnswers ELSE {None} :
                    /\ (asks /\ fy # None) => j.hist = None
                    /\ LET c == obtener_cambio_diario_justetf(DailyIsin, dc, now, j, fy)
                       IN /\ CommitDaily(c.dc)
                          /\ last' = CacheCall("obtener_cambio_diario_justetf", DailyIsin,
                                               now, c, StoredAt(last))

NextCache == TickCache \/ CacheYahoo \/ CacheJustETF

SpecCache == InitCache /\ [][NextCache]_vars

\* C26: a change is served from the daily-change cache for a key only if the
\* entry of that key was written less than 15 minutes before the call.
C26_OwnEntryFresh ==
    (last.op # "init" /\ last.hit) =>
        /\ last.stored_at[last.key] # None
        /\ last.at - last.stored_at[last.key].v < _CACHE_DURATION_MINUTES

----------------------------------------------------------------------------
(* Specification of the stacked caches: the resolver's 15-minute cache     *)
(* over the 30-minute caches of the two ISIN adapters, for one ISIN asked   *)
(* through both entry points of the resolver.                               *)

\* Calls of the resolver in one behaviour
MaxStackCalls == 3

StackInstants == {0, 25, 35}

StackTicker == "A"
StackIsin == "X"

\* The upstream answers to draw for an adapter in a call whose outcome is c
\* so far: every answer when the adapter is queried and misses its cache.
StackDraws(c, adapter, cacheHit, fetches) ==
    IF c.hit \/ cacheHit \/ ~Queried(c, adapter) THEN {NoFetch} ELSE fetches

\* The instant at which the result of the call c was fetched from its
\* source: the one recorded for the resolver's entry on a hit, the instant of
\* the adapter's entry when the adapter answered from its cache, the instant
\* of the call otherwise.
Origin(c, key, t, fetched) ==
    IF c.hit THEN fetched[key]
    ELSE IF c.ret = None THEN None
    ELSE LET q == c.log[Len(c.log)]
         IN IF q.cached THEN F(t - q.age) ELSE F(t)

\* fetched: for each key of the resolver's cache, the instant at which the
\* data of its entry was fetched from the source.
StackCall(op, key, t, c, fetched) ==
    [op |-> op, key |-> key, at |-> t, hit |-> c.hit, result |-> c.ret,
     log |-> c.log,
     origin |-> Origin(c, key, t, fetched),
     fetched |-> IF c.pf # pf_cache
                 THEN [fetched EXCEPT ![key] = Origin(c, key, t, fetched)]
                 ELSE fetched]

InitStack ==
    /\ now = 0
    /\ scrapers_disponibles = TRUE
    /\ pf_cache = [k \in Keys |-> None]
    /\ ms_cache = [i \in RealIsins |-> None]
    /\ je_cache = [i \in RealIsins |-> None]
    /\ pf_writer = [k \in Keys |-> NoWriter]
    /\ _cambio_diario_cache = <<>>
    /\ _cache_timestamp = None
    /\ last = [op |-> "init", key |-> "", at |-> 0, hit |-> FALSE, result |-> None,
               log |-> <<>>, origin |-> None, fetched |-> [k \in Keys |-> None]]
    /\ calls = 0

TickStack ==
    /\ calls < MaxStackCalls
    /\ \E t \in StackInstants :
         /\ t > now
         /\ now' = t
    /\ UNCHANGED <<scrapers_disponibles, pf_cache, ms_cache, je_cache, pf_writer, last, calls>>
    /\ UNCHANGED <<_cambio_diario_cache, _cache_timestamp>>

CommitStack(op, key, c) ==
    /\ pf_cache' = c.pf
    /\ je_cache' = c.je
    /\ ms_cache' = c.ms
    /\ last' = StackCall(op, key, now, c, last.fetched)
    /\ calls' = calls + 1
    /\ UNCHANGED <<now, scrapers_disponibles, pf_writer, _cambio_diario_cache,
                   _cache_timestamp>>

\* obtener_precio(ticker, isin)
StackObtenerPrecio ==
    /\ calls < MaxStackCalls
    /\ LET key == CacheKey(StackTicker, StackIsin)
           hit == PF_CacheHit(pf_cache, key, now)
           call(fy, fj, fm) ==
               obtener_precio(StackTicker, StackIsin, pf_cache, je_cache, ms_cache, now,
                              scrapers_disponibles, fy, fj, fm)
       IN \E fy \in IF hit THEN {None} ELSE YahooResults[StackTicker] :
          \E fj \in StackDraws(call(fy, NoFetch, NoFetch), "justetf",
                               JE_CacheHit(je_cache, StackIsin, now),
                               JustETFFetches[StackIsin]) :
          \E fm \in StackDraws(call(fy, fj, NoFetch), "morningstar",
                               MS_CacheHit(ms_cache, StackIsin, now),
                               MorningstarFetches[StackIsin]) :
             CommitStack("obtener_precio", key, call(fy, fj, fm))

\* obtener_precio_por_isin(isin)
StackObtenerPrecioPorIsin ==
    /\ calls < MaxStackCalls
    /\ LET key == IsinCacheKey(StackIsin)
           call(fj, fm) ==
               obtener_precio_por_isin(StackIsin, pf_cache, je_cache, ms_cache, now,
                                       scrapers_disponibles, fj, fm)
       IN \E fj \in StackDraws(call(NoFetch, NoFetch), "justetf",
                               JE_CacheHit(je_cache, StackIsin, now),
                               JustETFFetches[StackIsin]) :
          \E fm \in StackDraws(call(fj, NoFetch), "morningstar",
                               MS_CacheHit(ms_cache, StackIsin, now),
                               MorningstarFetches[StackIsin]) :
             CommitStack("obtener_precio_por_isin", key, call(fj, fm))

NextStack == TickStack \/ StackObtenerPrecio \/ StackObtenerPrecioPorIsin

SpecStack == InitStack /\ [][NextStack]_vars

\* C27: a quote with a price > 0 that the resolver returns was fetched from
\* its source less than 30 minutes before the call.
C27_ServedWithinLongestTTL ==
    (last.op # "init" /\ Tradable(last.result)) =>
        last.at - last.origin.v < MS_CACHE_MINUTES

----------------------------------------------------------------------------
(* Specification of concurrent calls: obtener_precio(ticker) run by the     *)
(* threads of the web server on the one PriceFetcher instance. A thread     *)
(* takes three steps: the cache check (price_fetcher.py:54-57), the request *)
(* to Yahoo (59-62) and the store (69-73); the interpreter switches threads *)
(* between them.                                                            *)

\* Threads in one behaviour
MaxHilos == 2

Hilos == 1..MaxHilos

ConcInstants == {0, 1, 2}

ConcTicker == "A"
ConcKey == CacheKey(ConcTicker, "")

\* A thread before its call.
HiloInicial == [pc |-> "check", hit |-> FALSE, resultado |-> None, ret |-> None]

\* last.hilo: the position and the locals of each thread; last.peticiones:
\* the requests sent to Yahoo so far; last.escritor, last.escrito_en: the
\* thread that wrote the cache last and the instant of its write.
Concurrent(hilo, peticiones, escritor, escrito_en) ==
    [op |-> "concurrent", hilo |-> hilo, peticiones |-> peticiones,
     escritor |-> escritor, escrito_en |-> escrito_en]

InitConc ==
    /\ now = 0
    /\ scrapers_disponibles = TRUE
    /\ pf_cache = [k \in Keys |-> None]
    /\ ms_cache = [i \in RealIsins |-> None]
    /\ je_cache = [i \in RealIsins |-> None]
    /\ pf_writer = [k \in Keys |-> NoWriter]
    /\ _cambio_diario_cache = <<>>
    /\ _cache_timestamp = None
    /\ last = Concurrent([i \in Hilos |-> HiloInicial], 0, 0, 0)
    /\ calls = 0

UnchangedConc ==
    UNCHANGED <<scrapers_disponibles, ms_cache, je_cache, pf_writer,
                _cambio_diario_cache, _cache_timestamp>>

TickConc ==
    /\ \E i \in Hilos : last.hilo[i].pc # "done"
    /\ \E t \in ConcInstants :
         /\ t > now
         /\ now' = t
    /\ UNCHANGED <<pf_cache, last, calls>>
    /\ UnchangedConc

\* price_fetcher.py:51-57: the cache check; a hit returns the cached data.
HiloCheck(i) ==
    /\ last.hilo[i].pc = "check"
    /\ LET hit == PF_CacheHit(pf_cache, ConcKey, now)
       IN /\ last' = [last EXCEPT !.hilo[i] =
                        IF hit
                        THEN [pc |-> "done", hit |-> TRUE, resultado |-> None,
                              ret |-> pf_cache[ConcKey].data]
                        ELSE [pc |-> "fetch", hit |-> FALSE, resultado |-> None,
                              ret |-> None]]
          /\ calls' = IF hit THEN calls + 1 ELSE calls
    /\ UNCHANGED <<now, pf_cache>>
    /\ UnchangedConc

\* price_fetcher.py:59-62: resultado = self._obtener_yahoo(ticker)
HiloFetch(i) ==
    /\ last.hilo[i].pc = "fetch"
    /\ \E fy \in YahooResults[ConcTicker] :
         last' = [last EXCEPT !.hilo[i].pc = "store",
                              !.hilo[i].resultado = fy,
                              !.peticiones = @ + 1]
    /\ UNCHANGED <<now, pf_cache, calls>>
    /\ UnchangedConc

\* price_fetcher.py:69-75: the store of the entry and the return.
HiloStore(i) ==
    /\ last.hilo[i].pc = "store"
    /\ LET resultado == last.hilo[i].resultado
       IN /\ pf_cache' = PF_Store(pf_cache, ConcKey, resultado, now)
          /\ last' = [last EXCEPT !.hilo[i].pc = "done",
                                  !.hilo[i].ret = resultado,
                                  !.escritor = IF resultado # None THEN i ELSE @,
                                  !.escrito_en = IF resultado # None THEN now ELSE @]
    /\ calls' = calls + 1
    /\ UNCHANGED now
    /\ UnchangedConc

NextConc == TickConc \/ \E i \in Hilos : HiloCheck(i) \/ HiloFetch(i) \/ HiloStore(i)

SpecConc == InitConc /\ [][NextConc]_vars

\* The threads that missed the cache and have sent their request.
Requested == {i \in Hilos : ~last.hilo[i].hit /\ last.hilo[i].pc \in {"store", "done"}}

\* C22: every thread that missed the cache has sent its own request to the
\* upstream (no thread waits for the request of another), and the entry in
\* the cache is whole the result of the thread that wrote last, with the
\* instant of its write.
C22_NotCoalescedLastWriterWins ==
    /\ last.peticiones = Cardinality(Requested)
    /\ pf_cache[ConcKey] # None =>
          /\ last.escritor \in Requested
          /\ pf_cache[ConcKey] =
                 Entry(last.escrito_en, last.hilo[last.escritor].resultado)
    /\ pf_cache[ConcKey] = None =>
          \A i \in Hilos : last.hilo[i].pc = "done" => last.hilo[i].ret = None

\* Two threads missed before either wrote; both have fetched different
\* quotes and stored them.
C22_Witness ==
    /\ \A i \in Hilos : last.hilo[i].pc = "done" /\ ~last.hilo[i].hit
    /\ last.peticiones >= 2
    /\ \E i, j \in Hilos :
         /\ last.hilo[i].resultado # None
         /\ last.hilo[j].resultado # None
         /\ last.hilo[i].resultado # last.hilo[j].resultado
         /\ last.escritor = j
         /\ pf_cache[ConcKey].data = last.hilo[j].resultado

(* ------------------------------------------------------------------ *)
(* Further properties of the historical series (SpecHist).              *)
(* ------------------------------------------------------------------ *)

\* The response carries the series of justETF.
SerieJustETF == IsHist /\ last.hecho.respuesta.success /\ last.hecho.respuesta.fuente = "justetf"

\* web_app.py:4572  if precio_gettex: the quote endpoint gave a last price
\* (None and 0.0 are no price)
PrecioGettexDisponible == last.q.ok /\ Truthy(last.q.latestQuote)

\* C23: a response with the series of justETF has the dates of that series
\* and as many prices; every price but the last is the one of the series, and
\* the last is the live price when the quote endpoint gave one, the one of the
\* series otherwise.
C23_OnlyLastPointReplaced ==
    SerieJustETF =>
        LET r == last.hecho.respuesta
            n == Len(last.je.precios)
        IN /\ r.fechas = last.je.fechas
           /\ Len(r.precios) = n
           /\ \A i \in 1..(n - 1) : r.precios[i] = last.je.precios[i]
           /\ r.precios[n] = IF PrecioGettexDisponible THEN last.q.latestQuote.v
                             ELSE last.je.precios[n]

\* A series of two points whose last price differs from the live price.
C23_Witness ==
    /\ SerieJustETF
    /\ PrecioGettexDisponible
    /\ Len(last.je.precios) = 2
    /\ last.je.precios[2] # last.q.latestQuote.v
    /\ last.hecho.respuesta.precios[2] = last.q.latestQuote.v
    /\ last.hecho.respuesta.precios[1] = last.je.precios[1]

\* web_app.py:4561-4566: the change of the quote endpoint, None when the
\* endpoint was not asked or gave none.
CambioDirecto == IF last.q.ok THEN last.q.dailyChangePercent ELSE None

C24_WitnessQuote ==
    /\ SerieJustETF
    /\ CambioDirecto # None
    /\ Len(last.je.precios) = 2
    /\ Pct(last.hecho.respuesta.precios[2], last.je.precios[1]) # CambioDirecto.v
    /\ last.hecho.respuesta.cambio_diario = CambioDirecto

\* scrapers.py:981-990  periodo_dias
periodo_dias ==
    ("1mo" :> 30) @@ ("3mo" :> 90) @@ ("6mo" :> 180) @@ ("1y" :> 365)
    @@ ("2y" :> 730) @@ ("5y" :> 1825) @@ ("10y" :> 3650) @@ ("max" :> 7300)

\* scrapers.py:991  dias = periodo_dias.get(periodo, 365)
dias(periodo) == IF periodo \in DOMAIN periodo_dias THEN periodo_dias[periodo] ELSE 365

\* The period tokens shorter than one month
PeriodosCortos == {"1d", "5d", "1w"}

\* C25: a request for a period shorter than one month asks justETF for one
\* month, a window of 30 days.
C25_ShortPeriodIsOneMonth ==
    (IsHist /\ last.periodo \in PeriodosCortos /\ last.hecho.justetf # "") =>
        /\ last.hecho.justetf = "1mo"
        /\ dias(last.hecho.justetf) = 30

====
